---- MODULE Spec2Model ----
(***************************************************************************)
(* InkSight: the cloud job pipeline (FastAPI handlers, the in-memory       *)
(* JobQueue with its background worker task, the file processor run in the *)
(* executor, the tenant storage).                                          *)
(*                                                                         *)
(* One step of the model is one run of the asyncio event loop between two  *)
(* suspension points (await), or one run of process_file in the executor   *)
(* thread.  Handlers are "async def" and run on the event loop, so the     *)
(* code between two awaits is atomic with respect to the job map.          *)
(*                                                                         *)
(* The device daemon (FileWatcher, FileProcessor) is a second program with *)
(* its own variables and its own specification, WatcherSpec: a single      *)
(* thread that polls the notebook directory while the tablet's own         *)
(* software writes the files.  One step of it is the code between two      *)
(* looks at the file system.                                               *)
(***************************************************************************)
EXTENDS Integers, Sequences, FiniteSets, TLC

\* ------------------------------------------------------------- bounds
MaxJobs == 2        \* uploads accepted in one run of the model
MaxTime == 1        \* last value of the clock
MaxLimit == 2       \* largest ?limit= a history request carries
MaxClock == 5       \* last value of the device's time.time()
MaxIdleThreshold == 2   \* largest idle_threshold a configuration carries
MaxBlocks == 2      \* most blocks in a page
MaxPoints == 20     \* most points in a stroke handed to a kernel

\* ------------------------------------------------------------- values
QUEUED == "queued"
PROCESSING == "processing"
COMPLETED == "completed"
FAILED == "failed"
JobStatus == {QUEUED, PROCESSING, COMPLETED, FAILED}

None == "None"          \* Optional[str] / Optional[ProcessingStats] unset
NoTime == -1            \* Optional[datetime] unset
NoJob == 0              \* no job bound to the worker's local variable
NoTask == 0             \* processing_task is None

ConfiguredKeys == {"test_key_123", "test_key_456"}
NoHeader == "no_header"
Headers == ConfiguredKeys \cup {"invalid_key", NoHeader}
DevMode == "dev_mode"
Presets == {"medium", "ultra_mega_smooth"}
valid_presets == {"minimal", "medium", "aggressive"}

VARIABLES
    api_keys,           \* settings.get_valid_api_keys(): fixed at start-up
    jobs,               \* JobQueue.jobs, in insertion order; job_id = index
    processing_task,    \* JobQueue.processing_task: NoTask or index in tasks
    tasks,              \* the asyncio tasks created for _process_queue
    files,              \* storage: <<user_id, job_id, role>> of files on disk
    now,                \* datetime.utcnow()
    processing_order,   \* history: job ids in the order they entered Processing
    response            \* the answer to the last POST /transform

VARIABLES
    idle_threshold,     \* InkSightConfig.idle_threshold
    cloud_enabled,      \* InkSightConfig.cloud.enabled
    clock,              \* time.time() on the device
    mtime,              \* os.path.getmtime of each .rm file, NoFile when absent
    marker,             \* content of each path + ".inksight" sidecar, <<>> when absent
    file_mtimes,        \* FileWatcher._file_mtimes
    file_last_change,   \* FileWatcher._file_last_change
    idle_triggered,     \* FileWatcher._idle_triggered
    processed_mtimes,   \* FileProcessor._processed_mtimes
    cloud_queue,        \* CloudQueue._queue
    queue_file,         \* the queue file: the entries _load reads from it, and
                        \* whether _save can write it
    watcher,            \* where the polling thread is: pc, the scan's now, the
                        \* files it has still to look at, the file it is at and
                        \* whether process_file rewrote it
    observed,           \* history: per path, the mtime last read by a scan and
                        \* the now of the scan that first read it
    changed_now,        \* history: paths whose mtime change the current scan saw
    finished,           \* history: per path, how process_file last finished
                        \* without error ("unchanged", "changed") since xochitl
                        \* last wrote the file, or "no"
    handoffs            \* history: per path, the calls of CloudQueue.enqueue
                        \* since the watcher last saw the path's mtime change

VARIABLES
    config,             \* InkSightConfig: smoothing, line_straightening,
                        \* pressure_normalization, processing
    disk,               \* per .rm path, the blocks of the file, of its
                        \* ".inksight_tmp" and of its ".inksight_bak"
    proc,               \* the running FileProcessor.process_file call: where it
                        \* is, the blocks in memory, its counters, what it
                        \* returned, and (history) the disk when it was called
    stroke_in,          \* a stroke handed to a kernel of smoothing.py
    stroke_out          \* the kernel called on it and the points it returned

cloud_vars == <<api_keys, jobs, processing_task, tasks, files, now, processing_order, response>>

device_vars == <<idle_threshold, cloud_enabled, clock, mtime, marker, file_mtimes,
                 file_last_change, idle_triggered, processed_mtimes, cloud_queue,
                 watcher, observed, changed_now, finished, handoffs, queue_file>>

processor_vars == <<config, disk, proc, stroke_in, stroke_out>>

vars == <<cloud_vars, device_vars, processor_vars>>

\* ------------------------------------------------------------- the clock
\* datetime.utcnow(): a read never gives less than the read before it, and
\* two reads may give the same instant.  now is the last value read.
Instants == {t \in {now, now + 1} : t <= MaxTime}

\* ------------------------------------------------------------- models/job.py
Job(id, user, preset, created_at) ==
    [ job_id        |-> id,
      user_id       |-> user,
      status        |-> QUEUED,
      preset        |-> preset,
      output_path   |-> None,
      created_at    |-> created_at,
      started_at    |-> NoTime,
      completed_at  |-> NoTime,
      progress      |-> 0,
      error_message |-> None,
      stats         |-> None ]

\* ------------------------------------------------------------- auth.py
Unauthorized == "401"

\* faulty variant: any key that is presented is accepted
verify_api_key_any_key(header) ==
    IF api_keys = {} THEN DevMode
    ELSE IF header = NoHeader THEN Unauthorized
    ELSE header

verify_api_key(header) ==
    IF api_keys = {} THEN DevMode
    ELSE IF header = NoHeader THEN Unauthorized
    ELSE IF header \notin api_keys THEN Unauthorized
    ELSE header

get_user_id_from_key(api_key) == api_key

\* ------------------------------------------------------------- HTTP responses
\* What a handler answers: user is what verify_api_key made of the request's
\* header.
Response(endpoint, user, job_id, code, body) ==
    [endpoint |-> endpoint, user |-> user, job_id |-> job_id,
     code |-> code, body |-> body]

Error(endpoint, user, job_id, code, detail) ==
    Response(endpoint, user, job_id, code, [detail |-> detail])

\* no POST /transform answered yet
NoResponse == Response("none", None, NoJob, 0, [detail |-> None])

\* ------------------------------------------------------------- services/storage.py
\* files holds what save_upload and save_output wrote.  The storage directory
\* belongs to the file system: whether a written file is still there when the
\* code looks is an input of the step that looks.
InputFile(user, id) == <<user, id, "input">>
OutputFile(user, id) == <<user, id, "output">>

\* Storage.get_file: the first match of "{job_id}_{file_type}_*.rm" in the
\* user's directory, or None.
get_file(user, id, file_type, present) ==
    IF <<user, id, file_type>> \in files /\ present THEN "file" ELSE None

\* ------------------------------------------------------------- services/queue.py
\* The worker task's position: "top" (about to run the loop body), "sleep"
\* (await asyncio.sleep(1), nothing queued), "exec" (await run_in_executor,
\* process_file not yet finished), "ready" (the executor future is resolved,
\* the task not yet resumed), "pause" (await asyncio.sleep(0.1)), "done".
NoResult == [kind |-> "none"]
NewTask == [pc |-> "top", job |-> NoJob, result |-> NoResult]

TaskDone(t) == tasks[t].pc = "done"

ActiveTasks == {t \in DOMAIN tasks : ~TaskDone(t)}

\* JobQueue.get_job
get_job(job_id) == IF job_id \in DOMAIN jobs THEN jobs[job_id] ELSE None

Known(job_id) == job_id \in DOMAIN jobs

\* sort(key=created_at, reverse=True): stable, so records with equal keys keep
\* their insertion order.
\* faulty variant: the sort is ascending
RECURSIVE InsertAsc(_, _)
InsertAsc(j, s) ==
    IF s = <<>> THEN <<j>>
    ELSE IF Head(s).created_at <= j.created_at THEN <<Head(s)>> \o InsertAsc(j, Tail(s))
    ELSE <<j>> \o s

RECURSIVE InsertDesc(_, _)
InsertDesc(j, s) ==
    IF s = <<>> THEN <<j>>
    ELSE IF Head(s).created_at >= j.created_at THEN <<Head(s)>> \o InsertDesc(j, Tail(s))
    ELSE <<j>> \o s

RECURSIVE SortDesc(_)
SortDesc(s) ==
    IF s = <<>> THEN <<>>
    ELSE InsertDesc(s[Len(s)], SortDesc(SubSeq(s, 1, Len(s) - 1)))

\* faulty variant: the list is not filtered by owner
Owned_Anyone(job, user_id) == TRUE

Owned(job, user_id) == job.user_id = user_id

\* JobQueue.get_user_jobs
get_user_jobs(user_id, limit) ==
    LET user_jobs == SelectSeq(jobs, LAMBDA job : Owned(job, user_id))
        sorted == SortDesc(user_jobs)
    IN  SubSeq(sorted, 1, IF limit < Len(sorted) THEN limit ELSE Len(sorted))

\* faulty variant: every enqueue starts a worker
NeedsWorker_Always == TRUE

\* enqueue's test for starting a worker (line 41)
NeedsWorker == processing_task = NoTask \/ TaskDone(processing_task)

\* faulty variant: enqueue runs the first lines of _process_job itself
enqueue_started(job) ==
    /\ jobs' = Append(jobs, [job EXCEPT !.status = PROCESSING, !.progress = 10])
    /\ IF NeedsWorker
         THEN /\ tasks' = Append(tasks, NewTask)
              /\ processing_task' = Len(tasks) + 1
         ELSE UNCHANGED <<tasks, processing_task>>

\* JobQueue.enqueue: no await inside, so it runs in the caller's step.
enqueue(job) ==
    /\ jobs' = Append(jobs, job)
    /\ IF NeedsWorker
         THEN /\ tasks' = Append(tasks, NewTask)
              /\ processing_task' = Len(tasks) + 1
         ELSE UNCHANGED <<tasks, processing_task>>

\* faulty variant: failed jobs are taken up again
Queued_or_failed == {i \in DOMAIN jobs : jobs[i].status \in {QUEUED, FAILED}}

\* _process_queue, line 85: the jobs whose status is Queued
Queued == {i \in DOMAIN jobs : jobs[i].status = QUEUED}

\* faulty variant: max instead of min, the newest job first
Newest(queued) ==
    CHOOSE i \in queued : \A j \in queued :
        \/ jobs[i].created_at > jobs[j].created_at
        \/ (jobs[i].created_at = jobs[j].created_at /\ i <= j)

\* min(queued, key=created_at): the first of the oldest, in insertion order.
Oldest(queued) ==
    CHOOSE i \in queued : \A j \in queued :
        \/ jobs[i].created_at < jobs[j].created_at
        \/ (jobs[i].created_at = jobs[j].created_at /\ i <= j)

\* _process_queue, lines 85-90: nothing queued, sleep a second.
process_queue_idle(t) ==
    /\ tasks[t].pc = "top"
    /\ Queued = {}
    /\ tasks' = [tasks EXCEPT ![t].pc = "sleep"]
    /\ UNCHANGED <<device_vars, processor_vars, api_keys, response, jobs, processing_task, files, now, processing_order>>

\* asyncio.sleep(1) is over: back to the top of the loop.
process_queue_wake(t) ==
    /\ tasks[t].pc = "sleep"
    /\ tasks' = [tasks EXCEPT ![t].pc = "top"]
    /\ UNCHANGED <<device_vars, processor_vars, api_keys, response, jobs, processing_task, files, now, processing_order>>

\* faulty variant: the start of processing is not stamped
StartedJob_NoStamp(job, utcnow) ==
    [job EXCEPT !.status = PROCESSING, !.progress = 10]

\* _process_job, lines 119-122
StartedJob(job, utcnow) ==
    [job EXCEPT !.status = PROCESSING, !.started_at = utcnow, !.progress = 10]

\* _process_queue lines 85-96 with _process_job lines 116-126: pick the oldest
\* queued job, mark it Processing and hand process_file to the executor.
process_queue_next(t) ==
    /\ tasks[t].pc = "top"
    /\ Queued # {}
    /\ \E utcnow \in Instants :
        LET j == Oldest(Queued) IN
        /\ jobs' = [jobs EXCEPT ![j] = StartedJob(jobs[j], utcnow)]
        /\ tasks' = [tasks EXCEPT ![t] = [pc |-> "exec", job |-> j, result |-> NoResult]]
        /\ processing_order' = Append(processing_order, j)
        /\ now' = utcnow
    /\ UNCHANGED <<device_vars, processor_vars, api_keys, response, processing_task, files>>

\* ------------------------------------------------------------- services/processor.py
\* What the file and the disk do to one run of process_file: the blocks are
\* read and written back ("ok"), the input file is gone ("missing"),
\* read_blocks raises ("read_error"),
\* save_output raises ("write_error"), anything else raises inside the outer
\* try ("unexpected").
AllOutcomes == {"ok", "missing", "read_error", "write_error", "unexpected"}

\* the outcomes the worker's runs are drawn from
Outcomes == {"ok", "read_error"}

Result(status, output_path, error, stats) ==
    [kind |-> "result", status |-> status, output_path |-> output_path,
     error |-> error, stats |-> stats]

Raised == [kind |-> "raised", status |-> None, output_path |-> None,
           error |-> "executor error", stats |-> None]

FailedResult(error) == Result(FAILED, None, error, None)

\* str(output_path) of the file save_output wrote
OutputPath == "output_path"

CompletedResult(job) == Result(COMPLETED, OutputPath, None, "stats")

\* process_file: the dict it returns; it never raises.
process_file(job, outcome) ==
    IF InputFile(job.user_id, job.job_id) \notin files \/ outcome = "missing"
        THEN FailedResult("Input file not found")
    ELSE IF outcome = "read_error" THEN FailedResult("Failed to read .rm file")
    ELSE IF outcome = "write_error" THEN FailedResult("Failed to write output file")
    ELSE IF outcome = "unexpected" THEN FailedResult("Unexpected error")
    ELSE CompletedResult(job)

\* faulty variant: the output file is opened before the input is read
run_in_executor_output_first(t, outcome) ==
    /\ tasks[t].pc = "exec"
    /\ LET job == jobs[tasks[t].job]
           result == process_file(job, outcome)
       IN  /\ tasks' = [tasks EXCEPT ![t].pc = "ready", ![t].result = result]
           /\ files' = files \cup {OutputFile(job.user_id, job.job_id)}
    /\ UNCHANGED <<device_vars, processor_vars, api_keys, response, jobs, processing_task, now, processing_order>>

\* The executor thread runs process_file on the worker's job; save_output
\* writes the output file exactly when the run completes.
run_in_executor(t, outcome) ==
    /\ tasks[t].pc = "exec"
    /\ LET job == jobs[tasks[t].job]
           result == process_file(job, outcome)
       IN  /\ tasks' = [tasks EXCEPT ![t].pc = "ready", ![t].result = result]
           /\ files' = IF result.status = COMPLETED
                         THEN files \cup {OutputFile(job.user_id, job.job_id)}
                         ELSE files
    /\ UNCHANGED <<device_vars, processor_vars, api_keys, response, jobs, processing_task, now, processing_order>>

\* The awaited executor call raises instead of returning a result.
executor_raises(t) ==
    /\ tasks[t].pc = "exec"
    /\ tasks' = [tasks EXCEPT ![t].pc = "ready", ![t].result = Raised]
    /\ UNCHANGED <<device_vars, processor_vars, api_keys, response, jobs, processing_task, files, now, processing_order>>

\* ------------------------------------------------------------- services/queue.py (cont.)
\* faulty variant: output_path is not taken from the result
FinishedJob_NoOutput(job, result, utcnow) ==
    [job EXCEPT !.status = result.status,
                !.progress = IF result.status = COMPLETED THEN 100 ELSE @,
                !.completed_at = utcnow,
                !.error_message = result.error,
                !.stats = result.stats]

\* faulty variant: progress is set to 100 whatever the result
FinishedJob_Always100(job, result, utcnow) ==
    [job EXCEPT !.status = result.status,
                !.progress = 100,
                !.completed_at = utcnow,
                !.output_path = result.output_path,
                !.error_message = result.error,
                !.stats = result.stats]

\* _process_job, lines 129-134
FinishedJob(job, result, utcnow) ==
    [job EXCEPT !.status = result.status,
                !.progress = IF result.status = COMPLETED THEN 100 ELSE @,
                !.completed_at = utcnow,
                !.output_path = result.output_path,
                !.error_message = result.error,
                !.stats = result.stats]

\* faulty variant: the except branch does not record the error text
ExceptJob_NoMessage(job, e, utcnow) ==
    [job EXCEPT !.status = FAILED, !.completed_at = utcnow]

\* _process_queue, lines 99-101
ExceptJob(job, e, utcnow) ==
    [job EXCEPT !.status = FAILED, !.error_message = e, !.completed_at = utcnow]

\* faulty variant: the status is stored, then the worker is suspended before
\* the other fields of the result are
process_job_finish_split(t) ==
    /\ tasks[t].pc = "ready"
    /\ tasks[t].result.kind = "result"
    /\ jobs' = [jobs EXCEPT ![tasks[t].job].status = tasks[t].result.status]
    /\ tasks' = [tasks EXCEPT ![t].pc = "pause"]
    /\ UNCHANGED <<device_vars, processor_vars, api_keys, response, processing_task, files, now, processing_order>>

\* _process_job resumes with the result (lines 129-137), then the worker
\* reaches asyncio.sleep(0.1).
process_job_finish(t) ==
    /\ tasks[t].pc = "ready"
    /\ tasks[t].result.kind = "result"
    /\ \E utcnow \in Instants :
        /\ jobs' = [jobs EXCEPT ![tasks[t].job] = FinishedJob(@, tasks[t].result, utcnow)]
        /\ now' = utcnow
    /\ tasks' = [tasks EXCEPT ![t].pc = "pause"]
    /\ UNCHANGED <<device_vars, processor_vars, api_keys, response, processing_task, files, processing_order>>

\* faulty variant: no except branch, the exception ends the worker task
process_queue_uncaught(t) ==
    /\ tasks[t].pc = "ready"
    /\ tasks[t].result.kind = "raised"
    /\ tasks' = [tasks EXCEPT ![t].pc = "done"]
    /\ UNCHANGED <<device_vars, processor_vars, api_keys, response, jobs, processing_task, files, now, processing_order>>

\* faulty variant: the except branch records the failure and leaves the loop
process_queue_except_break(t) ==
    /\ tasks[t].pc = "ready"
    /\ tasks[t].result.kind = "raised"
    /\ \E utcnow \in Instants :
        /\ jobs' = [jobs EXCEPT ![tasks[t].job] = ExceptJob(@, tasks[t].result.error, utcnow)]
        /\ now' = utcnow
    /\ tasks' = [tasks EXCEPT ![t].pc = "done"]
    /\ UNCHANGED <<device_vars, processor_vars, api_keys, response, processing_task, files, processing_order>>

\* _process_job raised: the except branch of _process_queue (lines 97-102).
process_queue_except(t) ==
    /\ tasks[t].pc = "ready"
    /\ tasks[t].result.kind = "raised"
    /\ \E utcnow \in Instants :
        /\ jobs' = [jobs EXCEPT ![tasks[t].job] = ExceptJob(@, tasks[t].result.error, utcnow)]
        /\ now' = utcnow
    /\ tasks' = [tasks EXCEPT ![t].pc = "pause"]
    /\ UNCHANGED <<device_vars, processor_vars, api_keys, response, processing_task, files, processing_order>>

\* asyncio.sleep(0.1) is over: back to the top of the loop.
process_queue_pause(t) ==
    /\ tasks[t].pc = "pause"
    /\ tasks' = [tasks EXCEPT ![t] = NewTask]
    /\ UNCHANGED <<device_vars, processor_vars, api_keys, response, jobs, processing_task, files, now, processing_order>>

\* ------------------------------------------------------------- routes
\* routes/transform.py, TransformResponse built from the job after enqueue
TransformResponse(job) ==
    [job_id |-> job.job_id, status |-> job.status, created_at |-> job.created_at]

\* faulty variant: the preset is validated before the size
Validate_PresetFirst(api_key, rm_filename, size_ok, preset) ==
    IF api_key = Unauthorized THEN 401
    ELSE IF ~rm_filename THEN 400
    ELSE IF preset \notin valid_presets THEN 400
    ELSE IF ~size_ok THEN 413
    ELSE 200

\* POST /transform, lines 36-57: 200 when the request passes validation, else
\* the status code of the HTTPException raised first.
Validate(api_key, rm_filename, size_ok, preset) ==
    IF api_key = Unauthorized THEN 401
    ELSE IF ~rm_filename THEN 400
    ELSE IF ~size_ok THEN 413
    ELSE IF preset \notin valid_presets THEN 400
    ELSE 200

\* POST /transform.  A rejected request returns before it touches anything.
\* The only await before enqueue is file.read(), and nothing shared is touched
\* before it; await job_queue.enqueue(job) does not suspend, so the job is
\* created, saved, enqueued and answered in one step.
transform_file(header, rm_filename, size_ok, preset) ==
    LET api_key == verify_api_key(header) IN
    /\ Validate(api_key, rm_filename, size_ok, preset) = 200
    /\ Len(jobs) < MaxJobs
    /\ \E utcnow \in Instants :
        LET user_id == get_user_id_from_key(api_key)
            job == Job(Len(jobs) + 1, user_id, preset, utcnow)
        IN  /\ files' = files \cup {InputFile(user_id, job.job_id)}
            /\ enqueue(job)
            /\ now' = utcnow
            /\ response' = Response("transform", api_key, job.job_id, 200,
                                    TransformResponse(job))
    /\ UNCHANGED <<device_vars, processor_vars, api_keys, processing_order>>

\* POST /transform, lines 36-57: the detail of the HTTPException raised first.
RejectDetail(api_key, rm_filename, size_ok, preset) ==
    IF api_key = Unauthorized THEN "Missing or invalid API key"
    ELSE IF ~rm_filename THEN "File must be a .rm file"
    ELSE IF ~size_ok THEN "File size exceeds limit"
    ELSE "Invalid preset"

\* POST /transform, a request that does not pass verify_api_key or the
\* handler's validation: the HTTPException is raised before the job is made,
\* the file saved or the queue touched.
transform_file_rejected(header, rm_filename, size_ok, preset) ==
    LET api_key == verify_api_key(header) IN
    /\ Validate(api_key, rm_filename, size_ok, preset) # 200
    /\ response' = Error("transform", api_key, NoJob,
                         Validate(api_key, rm_filename, size_ok, preset),
                         RejectDetail(api_key, rm_filename, size_ok, preset))
    /\ UNCHANGED <<device_vars, processor_vars, api_keys, jobs, processing_task, tasks, files, now, processing_order>>

\* The GET handlers have no await and write nothing: what one answers in a
\* state is a function of the state and the request.

\* faulty variant: the link is added as soon as the job has finished
TransformStatusResponse_Finished(job) ==
    [job_id        |-> job.job_id,
     status        |-> job.status,
     progress      |-> job.progress,
     created_at    |-> job.created_at,
     started_at    |-> job.started_at,
     completed_at  |-> job.completed_at,
     error_message |-> job.error_message,
     stats         |-> job.stats,
     download_url  |-> IF job.completed_at # NoTime
                         THEN "/download/{job_id}.rm" ELSE None]

\* routes/status.py lines 47-60
TransformStatusResponse(job) ==
    [job_id        |-> job.job_id,
     status        |-> job.status,
     progress      |-> job.progress,
     created_at    |-> job.created_at,
     started_at    |-> job.started_at,
     completed_at  |-> job.completed_at,
     error_message |-> job.error_message,
     stats         |-> job.stats,
     download_url  |-> IF job.status = COMPLETED /\ job.output_path # None
                         THEN "/download/{job_id}.rm" ELSE None]

\* faulty variant: no ownership test
Forbidden_Never(job, user_id) == FALSE

\* the ownership test of the status and download handlers (lines 40 and 82)
Forbidden(job, user_id) == job.user_id # user_id

\* GET /status/{job_id}
get_job_status(header, job_id) ==
    LET api_key == verify_api_key(header)
        user_id == get_user_id_from_key(api_key)
    IN  IF api_key = Unauthorized
            THEN Error("status", api_key, job_id, 401, "Missing or invalid API key")
        ELSE IF ~Known(job_id)
            THEN Error("status", api_key, job_id, 404, "Job not found")
        ELSE IF Forbidden(jobs[job_id], user_id)
            THEN Error("status", api_key, job_id, 403, "Access denied")
        ELSE Response("status", api_key, job_id, 200, TransformStatusResponse(jobs[job_id]))

\* faulty variant: the job's status is not looked at
download_result_any_status(header, job_id, present) ==
    LET api_key == verify_api_key(header)
        user_id == get_user_id_from_key(api_key)
    IN  IF api_key = Unauthorized
            THEN Error("download", api_key, job_id, 401, "Missing or invalid API key")
        ELSE IF ~Known(job_id)
            THEN Error("download", api_key, job_id, 404, "Job not found")
        ELSE IF Forbidden(jobs[job_id], user_id)
            THEN Error("download", api_key, job_id, 403, "Access denied")
        ELSE IF get_file(user_id, job_id, "output", present) = None
            THEN Error("download", api_key, job_id, 404, "Output file not found")
        ELSE Response("download", api_key, job_id, 200,
                      [file |-> OutputFile(user_id, job_id)])

\* GET /download/{job_id}.rm; present tells whether the output file is still
\* on disk.
download_result(header, job_id, present) ==
    LET api_key == verify_api_key(header)
        user_id == get_user_id_from_key(api_key)
    IN  IF api_key = Unauthorized
            THEN Error("download", api_key, job_id, 401, "Missing or invalid API key")
        ELSE IF ~Known(job_id)
            THEN Error("download", api_key, job_id, 404, "Job not found")
        ELSE IF Forbidden(jobs[job_id], user_id)
            THEN Error("download", api_key, job_id, 403, "Access denied")
        ELSE IF jobs[job_id].status # COMPLETED
            THEN Error("download", api_key, job_id, 400, "Job is not completed")
        ELSE IF get_file(user_id, job_id, "output", present) = None
            THEN Error("download", api_key, job_id, 404, "Output file not found")
        ELSE Response("download", api_key, job_id, 200,
                      [file |-> OutputFile(user_id, job_id)])

\* routes/history.py lines 31-41
TransformHistoryItem(job) ==
    [job_id |-> job.job_id, status |-> job.status, preset |-> job.preset,
     created_at |-> job.created_at, completed_at |-> job.completed_at]

\* GET /transforms?limit=N
get_transform_history(header, limit) ==
    LET api_key == verify_api_key(header)
        user_id == get_user_id_from_key(api_key)
    IN  IF api_key = Unauthorized
            THEN Error("history", api_key, NoJob, 401, "Missing or invalid API key")
        ELSE LET found == get_user_jobs(user_id, limit)
                 items == [i \in DOMAIN found |-> TransformHistoryItem(found[i])]
             IN  Response("history", api_key, NoJob, 200,
                          [transforms |-> items, total |-> Len(items)])

\* ------------------------------------------------------------- device: the files
\* The .rm files of the notebook directory: two pages.
Paths == {"page1.rm", "page2.rm"}
NoPath == "no_path"
NoFile == -1            \* os.path.getmtime raises OSError: no such file

\* str(mtime), the text written to and compared with the sidecar: a different
\* text for every different mtime.
str(m) == <<m>>

\* time.time() advances.
Tick ==
    /\ clock < MaxClock
    /\ clock' = clock + 1
    /\ UNCHANGED <<cloud_vars, processor_vars, handoffs, queue_file, idle_threshold, cloud_enabled, mtime, marker, file_mtimes,
                   file_last_change, idle_triggered, processed_mtimes, cloud_queue,
                   watcher, observed, changed_now, finished>>

\* xochitl, the tablet's own software, writes a page: the file's mtime becomes
\* the time of the write.
xochitl_writes(path) ==
    /\ mtime' = [mtime EXCEPT ![path] = clock]
    /\ finished' = [finished EXCEPT ![path] = "no"]
    /\ UNCHANGED <<cloud_vars, processor_vars, handoffs, queue_file, idle_threshold, cloud_enabled, clock, marker, file_mtimes,
                   file_last_change, idle_triggered, processed_mtimes, cloud_queue,
                   watcher, observed, changed_now>>

\* An older copy of a page is put back (restored from a backup, synced from
\* another device): the file's mtime becomes an earlier time.
file_restored(path) ==
    /\ mtime[path] # NoFile
    /\ \E m \in 0..mtime[path] - 1 : mtime' = [mtime EXCEPT ![path] = m]
    /\ finished' = [finished EXCEPT ![path] = "no"]
    /\ UNCHANGED <<cloud_vars, processor_vars, handoffs, queue_file, idle_threshold, cloud_enabled, clock, marker, file_mtimes,
                   file_last_change, idle_triggered, processed_mtimes, cloud_queue,
                   watcher, observed, changed_now>>

\* ------------------------------------------------------------- device/inksight/watcher.py
\* the entry enqueue builds, lines 39-45; the notebook and the page are those
\* of the path
Pending(rm_path) == [rm_path |-> rm_path, queued_at |-> clock, status |-> "pending"]

\* faulty variant: the entry is appended whether or not one is pending
CloudQueue_enqueue_appends(queue, rm_path) == Append(queue, Pending(rm_path))

\* CloudQueue.enqueue: append unless a pending entry for the path exists.
CloudQueue_enqueue(queue, rm_path) ==
    IF \E k \in DOMAIN queue :
            queue[k].rm_path = rm_path /\ queue[k].status = "pending"
        THEN queue
        ELSE Append(queue, Pending(rm_path))

Sleeping == [pc |-> "sleep", now |-> NoTime, todo |-> {}, path |-> NoPath,
             rewrite |-> "no"]

\* the watcher goes on to the next file of the scan
Continue == [watcher EXCEPT !.pc = "scan", !.todo = @ \ {watcher.path},
                           !.path = NoPath, !.rewrite = "no"]

\* the queue file holding entries, its directory writable
QueueFile(entries) == [entries |-> entries, writable |-> TRUE]

\* CloudQueue.enqueue, lines 47-51, and _save: when the entry was appended
\* (queue differs from before) the whole queue is written to the file.  A
\* write that fails (OSError) leaves the file as it was or, opened and
\* truncated, without entries; the exception leaves enqueue and scan_once and
\* is caught by the main loop, which sleeps.
CloudQueue_save(queue, before) ==
    IF queue = before
        THEN /\ watcher' = Continue
             /\ UNCHANGED queue_file
    ELSE IF queue_file.writable
        THEN /\ watcher' = Continue
             /\ queue_file' = [queue_file EXCEPT !.entries = queue]
    ELSE /\ watcher' = Sleeping
         /\ \E kept \in BOOLEAN :
                queue_file' = [queue_file EXCEPT !.entries = IF kept THEN @ ELSE <<>>]

\* faulty variant: the idle file is handed over in every scan that finds it idle
Handoff_every_scan(path) ==
    IF cloud_enabled
        THEN /\ idle_triggered' = idle_triggered \cup {path}
             /\ cloud_queue' = CloudQueue_enqueue(cloud_queue, path)
             /\ CloudQueue_save(CloudQueue_enqueue(cloud_queue, path), cloud_queue)
             /\ handoffs' = [handoffs EXCEPT ![path] = IF @ < 2 THEN @ + 1 ELSE 2]
        ELSE /\ watcher' = Continue
             /\ UNCHANGED <<idle_triggered, cloud_queue, handoffs, queue_file>>

\* faulty variant: the flag is set and nothing is enqueued
Handoff_flag_only(path) ==
    IF cloud_enabled /\ path \notin idle_triggered
        THEN /\ idle_triggered' = idle_triggered \cup {path}
             /\ watcher' = Continue
             /\ handoffs' = [handoffs EXCEPT ![path] = IF @ < 2 THEN @ + 1 ELSE 2]
             /\ UNCHANGED <<cloud_queue, queue_file>>
        ELSE /\ watcher' = Continue
             /\ UNCHANGED <<idle_triggered, cloud_queue, handoffs, queue_file>>

\* scan_once, lines 127-133: hand the idle file to the cloud queue, once: the
\* flag is set (line 130), then enqueue is called (line 133); the scan goes on
\* with the next file unless enqueue raised.
Handoff(path) ==
    IF cloud_enabled /\ path \notin idle_triggered
        THEN /\ idle_triggered' = idle_triggered \cup {path}
             /\ cloud_queue' = CloudQueue_enqueue(cloud_queue, path)
             /\ CloudQueue_save(CloudQueue_enqueue(cloud_queue, path), cloud_queue)
             /\ handoffs' = [handoffs EXCEPT ![path] = IF @ < 2 THEN @ + 1 ELSE 2]
        ELSE /\ watcher' = Continue
             /\ UNCHANGED <<idle_triggered, cloud_queue, handoffs, queue_file>>

\* scan_once, lines 80-94: read the clock once and list the .rm files.
scan_begin ==
    /\ watcher.pc = "sleep"
    /\ watcher' = [Sleeping EXCEPT !.pc = "scan", !.now = clock,
                       !.todo = {path \in Paths : mtime[path] # NoFile}]
    /\ changed_now' = {}
    /\ UNCHANGED <<cloud_vars, processor_vars, handoffs, queue_file, idle_threshold, cloud_enabled, clock, mtime, marker,
                   file_mtimes, file_last_change, idle_triggered, processed_mtimes,
                   cloud_queue, observed, finished>>

\* faulty variant: no file is ever taken as idle
IsIdle_Never(scan_now, last_change) == FALSE

\* faulty variant: a file is taken as idle as soon as it is seen
IsIdle_AtOnce(scan_now, last_change) == TRUE

\* scan_once, lines 115-117: idle_time = now - last_change, compared with the
\* threshold.
IsIdle(scan_now, last_change) == ~(scan_now - last_change < idle_threshold)

\* scan_once, lines 97-117, for one file of the scan: read its mtime, track a
\* change, and go on with the file only when it is idle.
scan_file(path) ==
    /\ watcher.pc = "scan"
    /\ path \in watcher.todo
    /\ LET m == mtime[path]
           old_mtime == file_mtimes[path]
           last_change == IF old_mtime # m THEN watcher.now ELSE file_last_change[path]
       IN  /\ file_mtimes' = [file_mtimes EXCEPT ![path] = m]
           /\ file_last_change' = [file_last_change EXCEPT ![path] =
                                     IF last_change = NoTime THEN watcher.now ELSE last_change]
           /\ idle_triggered' = IF old_mtime # m THEN idle_triggered \ {path}
                                ELSE idle_triggered
           /\ watcher' = IF last_change = NoTime \/ ~IsIdle(watcher.now, last_change)
                           THEN [watcher EXCEPT !.todo = @ \ {path}]
                           ELSE [watcher EXCEPT !.pc = "idle", !.path = path]
           /\ observed' = IF observed[path].mtime # m
                            THEN [observed EXCEPT ![path] = [mtime |-> m, at |-> watcher.now]]
                            ELSE observed
           /\ changed_now' = IF observed[path].mtime # m THEN changed_now \cup {path}
                             ELSE changed_now
           /\ handoffs' = IF old_mtime # m THEN [handoffs EXCEPT ![path] = 0] ELSE handoffs
    /\ UNCHANGED <<cloud_vars, processor_vars, queue_file, idle_threshold, cloud_enabled, clock, mtime, marker,
                   processed_mtimes, cloud_queue, finished>>

\* scan_once, line 135: every file of the scan was looked at; run sleeps.
scan_end ==
    /\ watcher.pc = "scan"
    /\ watcher.todo = {}
    /\ watcher' = Sleeping
    /\ UNCHANGED <<cloud_vars, processor_vars, handoffs, queue_file, idle_threshold, cloud_enabled, clock, mtime, marker,
                   file_mtimes, file_last_change, idle_triggered, processed_mtimes,
                   cloud_queue, observed, changed_now, finished>>

\* ------------------------------------------------------------- device/inksight/processor.py
\* should_process, lines 46-53: the sidecar holds the text of the file's mtime.
MarkerMatches(path) == marker[path] = str(mtime[path])

\* faulty variant: neither the remembered mtime nor the sidecar is consulted
should_process_always(path) == mtime[path] # NoFile

\* faulty variant: only the very mtime that was processed is passed over
should_process_same_mtime(path) ==
    IF mtime[path] = NoFile THEN FALSE
    ELSE IF processed_mtimes[path] # NoTime /\ mtime[path] = processed_mtimes[path] THEN FALSE
    ELSE IF MarkerMatches(path) THEN FALSE
    ELSE TRUE

\* faulty variant: only the mtime remembered in memory is consulted
should_process_memory_only(path) ==
    IF mtime[path] = NoFile THEN FALSE
    ELSE IF processed_mtimes[path] # NoTime /\ mtime[path] <= processed_mtimes[path] THEN FALSE
    ELSE TRUE

\* FileProcessor.should_process: the paths come from glob("*.rm"), so the
\* suffix test passes.
should_process(path) ==
    IF mtime[path] = NoFile THEN FALSE
    ELSE IF processed_mtimes[path] # NoTime /\ mtime[path] <= processed_mtimes[path] THEN FALSE
    ELSE IF MarkerMatches(path) THEN FALSE
    ELSE TRUE

\* scan_once line 120: should_process on the idle file.  When the sidecar
\* matches, should_process remembers the mtime (line 52).  A file that is not
\* to be processed goes to the hand-off and the scan goes on.
scan_should_process ==
    /\ watcher.pc = "idle"
    /\ LET path == watcher.path
           remembered == processed_mtimes[path] # NoTime
                           /\ mtime[path] <= processed_mtimes[path]
       IN  /\ processed_mtimes' =
                 IF mtime[path] # NoFile /\ ~remembered /\ MarkerMatches(path)
                     THEN [processed_mtimes EXCEPT ![path] = mtime[path]]
                     ELSE processed_mtimes
           /\ IF should_process(path)
                THEN /\ watcher' = [watcher EXCEPT !.pc = "process"]
                     /\ UNCHANGED <<idle_triggered, cloud_queue, handoffs, queue_file>>
                ELSE Handoff(path)
    /\ UNCHANGED <<cloud_vars, processor_vars, idle_threshold, cloud_enabled, clock, mtime, marker,
                   file_mtimes, file_last_change, observed, changed_now, finished>>

\* What the file and the disk do to one run of FileProcessor.process_file up
\* to line 132: read_blocks raises, no stroke differs, strokes differ and the
\* file is rewritten, the rewrite raises, or an exception leaves process_file
\* and is caught by scan_once (watcher.py 124-125).
Rewrites == {"read_error", "unchanged", "changed", "write_error", "raised"}

\* faulty variant: a failure of process_file ends the scan
process_file_rewrite_aborts(rewrite) ==
    /\ watcher.pc = "process"
    /\ LET path == watcher.path IN
       IF rewrite \in {"read_error", "write_error", "raised"}
         THEN /\ watcher' = Sleeping
              /\ UNCHANGED <<mtime, idle_triggered, cloud_queue, handoffs, queue_file>>
         ELSE /\ watcher' = [watcher EXCEPT !.pc = "mark", !.rewrite = rewrite]
              /\ mtime' = IF rewrite = "changed" THEN [mtime EXCEPT ![path] = clock]
                          ELSE mtime
              /\ UNCHANGED <<idle_triggered, cloud_queue, handoffs, queue_file>>
    /\ UNCHANGED <<cloud_vars, processor_vars, idle_threshold, cloud_enabled, clock, marker, file_mtimes,
                   file_last_change, processed_mtimes, observed, changed_now, finished>>

\* process_file, lines 78-132.  A failure returns False (lines 84, 130) and the
\* scan goes on with the hand-off; the rewritten file carries the time of the
\* write as its mtime.
process_file_rewrite(rewrite) ==
    /\ watcher.pc = "process"
    /\ LET path == watcher.path IN
       IF rewrite \in {"read_error", "write_error", "raised"}
         THEN /\ Handoff(path)
              /\ UNCHANGED mtime
         ELSE /\ watcher' = [watcher EXCEPT !.pc = "mark", !.rewrite = rewrite]
              /\ mtime' = IF rewrite = "changed" THEN [mtime EXCEPT ![path] = clock]
                          ELSE mtime
              /\ UNCHANGED <<idle_triggered, cloud_queue, handoffs, queue_file>>
    /\ UNCHANGED <<cloud_vars, processor_vars, idle_threshold, cloud_enabled, clock, marker, file_mtimes,
                   file_last_change, processed_mtimes, observed, changed_now, finished>>

\* process_file lines 134-137 with _mark_processed: read the mtime again,
\* remember it and write it to the sidecar (a failed write of the sidecar is
\* only logged); then the hand-off, and the scan goes on.
process_file_mark(marker_written) ==
    /\ watcher.pc = "mark"
    /\ LET path == watcher.path IN
        /\ processed_mtimes' = [processed_mtimes EXCEPT ![path] = mtime[path]]
        /\ marker' = IF marker_written THEN [marker EXCEPT ![path] = str(mtime[path])]
                     ELSE marker
        /\ finished' = [finished EXCEPT ![path] = watcher.rewrite]
        /\ Handoff(path)
    /\ UNCHANGED <<cloud_vars, processor_vars, idle_threshold, cloud_enabled, clock, mtime, file_mtimes,
                   file_last_change, observed, changed_now>>

\* daemon.py, lines 102-134: a signal ends the main loop after the scan, and
\* the daemon is started again.  FileWatcher.__init__ and
\* FileProcessor.__init__ start with empty dictionaries; the sidecars and the
\* queue file stay on the disk.
daemon_restart ==
    /\ watcher.pc = "sleep"
    /\ file_mtimes' = [path \in Paths |-> NoTime]
    /\ file_last_change' = [path \in Paths |-> NoTime]
    /\ idle_triggered' = {}
    /\ processed_mtimes' = [path \in Paths |-> NoTime]
    /\ observed' = [path \in Paths |-> [mtime |-> NoTime, at |-> NoTime]]
    /\ changed_now' = {}
    /\ cloud_queue' = IF cloud_enabled THEN queue_file.entries ELSE <<>>
    /\ UNCHANGED <<cloud_vars, processor_vars, handoffs, queue_file, idle_threshold, cloud_enabled, clock, mtime,
                   marker, watcher, finished>>

\* the directory of the queue file stops taking writes (the disk is full, the
\* directory is read-only), and takes them again
queue_file_unwritable ==
    /\ queue_file.writable
    /\ queue_file' = [queue_file EXCEPT !.writable = FALSE]
    /\ UNCHANGED <<cloud_vars, processor_vars, handoffs, idle_threshold, cloud_enabled, clock, mtime,
                   marker, file_mtimes, file_last_change, idle_triggered, processed_mtimes,
                   cloud_queue, watcher, observed, changed_now, finished>>

queue_file_writable ==
    /\ ~queue_file.writable
    /\ queue_file' = [queue_file EXCEPT !.writable = TRUE]
    /\ UNCHANGED <<cloud_vars, processor_vars, handoffs, idle_threshold, cloud_enabled, clock, mtime,
                   marker, file_mtimes, file_last_change, idle_triggered, processed_mtimes,
                   cloud_queue, watcher, observed, changed_now, finished>>

\* ------------------------------------------------------------- device/inksight/config.py
\* InkSightConfig as its dataclasses default it; lengths are in the units of
\* the .rm coordinates.
DefaultConfig ==
    [smoothing |-> [enabled |-> TRUE, algorithm |-> "gaussian", window_size |-> 5,
                    rdp_epsilon |-> 2, min_points |-> 5],
     pressure_normalization |-> [enabled |-> TRUE, target_min |-> 10, target_max |-> 245,
                                 low_percentile |-> 5, high_percentile |-> 95],
     line_straightening |-> [enabled |-> TRUE, straightness_threshold |-> 15,
                             min_length |-> 50, max_points |-> 30],
     processing |-> [skip_tools |-> {6, 8}, only_tools |-> {}]]

Algorithms == {"gaussian", "moving_average", "rdp"}

\* the configurations a config.yaml can switch to: each kernel on or off, the
\* smoothing algorithm, and an include-list of tools
Configs ==
    {[DefaultConfig EXCEPT !.smoothing.enabled = s, !.smoothing.algorithm = a,
                           !.line_straightening.enabled = l,
                           !.pressure_normalization.enabled = p,
                           !.processing.only_tools = o] :
        s \in BOOLEAN, a \in Algorithms, l \in BOOLEAN, p \in BOOLEAN, o \in {{}, {2}}}

\* ------------------------------------------------------------- device/inksight/smoothing.py
\* The floats of smoothing.py are fixed-point numbers here.  Coordinates are
\* whole units; a length or a distance is in hundredths of a unit; a quotient
\* is rounded to the nearest whole number.
Unit == 100

Min(a, b) == IF a < b THEN a ELSE b
Max(a, b) == IF a > b THEN a ELSE b

\* a / b for b > 0, rounded to the nearest whole number
Round(a, b) == (2 * a + b) \div (2 * b)

\* int(a / b) for b > 0: Python's int truncates towards zero
int(a, b) == IF a >= 0 THEN a \div b ELSE -((-a) \div b)

RECURSIVE Sum(_)
Sum(s) == IF s = <<>> THEN 0 ELSE Head(s) + Sum(Tail(s))

\* the greatest r in lo..hi with r * r <= n
RECURSIVE isqrt(_, _, _)
isqrt(n, lo, hi) ==
    IF lo = hi THEN lo
    ELSE LET mid == (lo + hi + 1) \div 2
         IN  IF mid * mid <= n THEN isqrt(n, mid, hi) ELSE isqrt(n, lo, mid - 1)

\* math.hypot of two lengths in hundredths, in hundredths
hypot(dx, dy) == isqrt(dx * dx + dy * dy, 0, 46340)

Point(x, y, speed, direction, width, pressure) ==
    [x |-> x, y |-> y, speed |-> speed, direction |-> direction, width |-> width,
     pressure |-> pressure]

\* _gaussian_weights for sigma = 1.0, in hundredths: exp(-i*i/2) over its sum
gaussian_weights(window_size) ==
    IF window_size = 3 THEN <<27, 46, 27>>
    ELSE IF window_size = 5 THEN <<5, 24, 42, 24, 5>>
    ELSE <<0, 5, 24, 42, 24, 5, 0>>

\* the window both smoothing kernels use: min(window_size, len), made odd
Window(pts, window_size) ==
    LET w == Min(window_size, Len(pts))
    IN  IF w % 2 = 0 THEN w - 1 ELSE w

\* faulty variant: the points at the ends are smoothed too, the window held
\* inside the stroke
smooth_gaussian_ends_smoothed(pts, window_size) ==
    LET n == Len(pts)
        w == Window(pts, window_size)
        half == w \div 2
        weights == gaussian_weights(w)
        at(k) == pts[Max(1, Min(n, k))]
        sx(i) == Sum([j \in 1..w |-> weights[j] * at(i - half + j - 1).x])
        sy(i) == Sum([j \in 1..w |-> weights[j] * at(i - half + j - 1).y])
    IN  IF n < 3 THEN pts
        ELSE IF w < 3 THEN pts
        ELSE [i \in 1..n |->
                [pts[i] EXCEPT !.x = Round(sx(i), Unit), !.y = Round(sy(i), Unit)]]

\* smooth_gaussian: x and y of the inner points become the weighted mean of
\* their window; the first and last half-window of points is copied.
smooth_gaussian(pts, window_size) ==
    LET n == Len(pts)
        w == Window(pts, window_size)
        half == w \div 2
        weights == gaussian_weights(w)
        sx(i) == Sum([j \in 1..w |-> weights[j] * pts[i - half + j - 1].x])
        sy(i) == Sum([j \in 1..w |-> weights[j] * pts[i - half + j - 1].y])
    IN  IF n < 3 THEN pts
        ELSE IF w < 3 THEN pts
        ELSE [i \in 1..n |->
                IF i <= half \/ i > n - half THEN pts[i]
                ELSE [pts[i] EXCEPT !.x = Round(sx(i), Unit), !.y = Round(sy(i), Unit)]]

\* smooth_moving_average: the same with equal weights.
smooth_moving_average(pts, window_size) ==
    LET n == Len(pts)
        w == Window(pts, window_size)
        half == w \div 2
        sx(i) == Sum([j \in 1..w |-> pts[i - half + j - 1].x])
        sy(i) == Sum([j \in 1..w |-> pts[i - half + j - 1].y])
    IN  IF n < 3 THEN pts
        ELSE IF w < 3 THEN pts
        ELSE [i \in 1..n |->
                IF i <= half \/ i > n - half THEN pts[i]
                ELSE [pts[i] EXCEPT !.x = Round(sx(i), w), !.y = Round(sy(i), w)]]

\* _perpendicular_distance, in hundredths: the distance from point to its
\* projection on the segment, t clamped to [0, 1].
perpendicular_distance(point, line_start, line_end) ==
    LET dx == line_end.x - line_start.x
        dy == line_end.y - line_start.y
        length_sq == dx * dx + dy * dy
        dot == (point.x - line_start.x) * dx + (point.y - line_start.y) * dy
        t == Max(0, Min(length_sq, dot))        \* t times length_sq
        proj_x == line_start.x * Unit + Round(t * dx * Unit, length_sq)
        proj_y == line_start.y * Unit + Round(t * dy * Unit, length_sq)
    IN  IF length_sq = 0
            THEN hypot((point.x - line_start.x) * Unit, (point.y - line_start.y) * Unit)
            ELSE hypot(point.x * Unit - proj_x, point.y * Unit - proj_y)

\* simplify_rdp, lines 123-130: the greatest distance of an inner point from
\* the chord and the first inner point that has it (0 when all are on it).
rdp_max_dist(pts) ==
    LET d(i) == perpendicular_distance(pts[i], pts[1], pts[Len(pts)])
    IN  CHOOSE m \in {d(i) : i \in 2..Len(pts) - 1} :
            \A i \in 2..Len(pts) - 1 : d(i) <= m

rdp_max_idx(pts) ==
    LET d(i) == perpendicular_distance(pts[i], pts[1], pts[Len(pts)])
    IN  IF rdp_max_dist(pts) = 0 THEN 0
        ELSE CHOOSE i \in 2..Len(pts) - 1 :
                /\ d(i) = rdp_max_dist(pts)
                /\ \A j \in 2..i - 1 : d(j) < rdp_max_dist(pts)

\* faulty variant: one pass that drops every inner point within epsilon of
\* the chord of its two neighbours
simplify_rdp_neighbour_chords(pts, epsilon) ==
    LET n == Len(pts)
        kept == {1, n} \cup {i \in 2..n - 1 :
                    perpendicular_distance(pts[i], pts[i - 1], pts[i + 1]) > epsilon * Unit}
        nth(k) == CHOOSE i \in kept : Cardinality({j \in kept : j < i}) = k - 1
    IN  IF n < 3 THEN pts
        ELSE [k \in 1..Cardinality(kept) |-> pts[nth(k)]]

\* simplify_rdp: split at the farthest point while it is farther than epsilon.
RECURSIVE simplify_rdp(_, _)
simplify_rdp(pts, epsilon) ==
    IF Len(pts) < 3 THEN pts
    ELSE IF rdp_max_dist(pts) > epsilon * Unit
        THEN LET max_idx == rdp_max_idx(pts)
                 left == simplify_rdp(SubSeq(pts, 1, max_idx), epsilon)
                 right == simplify_rdp(SubSeq(pts, max_idx, Len(pts)), epsilon)
             IN  SubSeq(left, 1, Len(left) - 1) \o right
        ELSE <<pts[1], pts[Len(pts)]>>

\* sorted(p.pressure for p in points)
RECURSIVE sorted(_)
sorted(s) ==
    IF s = <<>> THEN <<>>
    ELSE LET k == CHOOSE i \in DOMAIN s : \A j \in DOMAIN s : s[i] <= s[j]
         IN  <<s[k]>> \o sorted(SubSeq(s, 1, k - 1) \o SubSeq(s, k + 1, Len(s)))

\* normalize_pressure, lines 150-156: the pressures at the low and the high
\* percentile of the stroke.
p_lo(pts, low_pct) ==
    sorted([i \in 1..Len(pts) |-> pts[i].pressure])[Max(0, (Len(pts) * low_pct) \div 100) + 1]

p_hi(pts, high_pct) ==
    sorted([i \in 1..Len(pts) |-> pts[i].pressure])
        [Min(Len(pts) - 1, (Len(pts) * high_pct) \div 100) + 1]

\* faulty variant: the new pressure is not kept within 0..255
normalize_pressure_unclamped(pts, target_min, target_max, low_pct, high_pct) ==
    LET lo == p_lo(pts, low_pct)
        hi == p_hi(pts, high_pct)
        mid == (target_min + target_max) \div 2
        new_pressure(p) ==
            int(target_min * (hi - lo) + (p - lo) * (target_max - target_min), hi - lo)
    IN  IF Len(pts) < 2 THEN pts
        ELSE IF hi <= lo THEN [i \in 1..Len(pts) |-> [pts[i] EXCEPT !.pressure = mid]]
        ELSE [i \in 1..Len(pts) |-> [pts[i] EXCEPT !.pressure = new_pressure(pts[i].pressure)]]

\* faulty variant: a stroke of fewer than three points is returned as it is
normalize_pressure_from_three(pts, target_min, target_max, low_pct, high_pct) ==
    LET lo == p_lo(pts, low_pct)
        hi == p_hi(pts, high_pct)
        mid == (target_min + target_max) \div 2
        new_pressure(p) ==
            int(target_min * (hi - lo) + (p - lo) * (target_max - target_min), hi - lo)
    IN  IF Len(pts) < 3 THEN pts
        ELSE IF hi <= lo THEN [i \in 1..Len(pts) |-> [pts[i] EXCEPT !.pressure = mid]]
        ELSE [i \in 1..Len(pts) |->
                [pts[i] EXCEPT !.pressure = Max(0, Min(255, new_pressure(pts[i].pressure)))]]

\* normalize_pressure: map [p_lo, p_hi] onto [target_min, target_max], the
\* result truncated and kept within 0..255; a flat stroke gets the midpoint.
normalize_pressure(pts, target_min, target_max, low_pct, high_pct) ==
    LET lo == p_lo(pts, low_pct)
        hi == p_hi(pts, high_pct)
        mid == (target_min + target_max) \div 2
        new_pressure(p) ==
            int(target_min * (hi - lo) + (p - lo) * (target_max - target_min), hi - lo)
    IN  IF Len(pts) < 2 THEN pts
        ELSE IF hi <= lo THEN [i \in 1..Len(pts) |-> [pts[i] EXCEPT !.pressure = mid]]
        ELSE [i \in 1..Len(pts) |->
                [pts[i] EXCEPT !.pressure = Max(0, Min(255, new_pressure(pts[i].pressure)))]]

\* _stroke_length, in hundredths
RECURSIVE stroke_length(_)
stroke_length(pts) ==
    IF Len(pts) < 2 THEN 0
    ELSE LET n == Len(pts)
         IN  stroke_length(SubSeq(pts, 1, n - 1))
                + hypot((pts[n].x - pts[n - 1].x) * Unit, (pts[n].y - pts[n - 1].y) * Unit)

\* _max_deviation, in hundredths
max_deviation(pts) ==
    IF Len(pts) < 3 THEN 0
    ELSE rdp_max_dist(pts)

\* faulty variant: a stroke shorter than min_length is snapped too
straighten_line_any_length(pts, threshold, min_length, max_points) ==
    LET n == Len(pts)
        total_len == stroke_length(pts)
        start == pts[1]
        end == pts[n]
        cumulative(i) == stroke_length(SubSeq(pts, 1, i))
    IN  IF n < 2 \/ n > max_points THEN pts
        ELSE IF max_deviation(pts) > threshold * Unit THEN pts
        ELSE IF total_len = 0 THEN pts
        ELSE [i \in 1..n |->
                IF i = 1 THEN pts[1]
                ELSE [pts[i] EXCEPT
                        !.x = start.x + Round(cumulative(i) * (end.x - start.x), total_len),
                        !.y = start.y + Round(cumulative(i) * (end.y - start.y), total_len)]]

\* straighten_line: a short, long enough and nearly straight stroke has its
\* points moved onto the chord, each as far along it as along the stroke.
straighten_line(pts, threshold, min_length, max_points) ==
    LET n == Len(pts)
        total_len == stroke_length(pts)
        start == pts[1]
        end == pts[n]
        cumulative(i) == stroke_length(SubSeq(pts, 1, i))
    IN  IF n < 2 \/ n > max_points THEN pts
        ELSE IF total_len < min_length * Unit THEN pts
        ELSE IF max_deviation(pts) > threshold * Unit THEN pts
        ELSE IF total_len = 0 THEN pts
        ELSE [i \in 1..n |->
                IF i = 1 THEN pts[1]
                ELSE [pts[i] EXCEPT
                        !.x = start.x + Round(cumulative(i) * (end.x - start.x), total_len),
                        !.y = start.y + Round(cumulative(i) * (end.y - start.y), total_len)]]

\* process_stroke, lines 239-246: the smoothing kernel the configuration names
smoothed(pts, cfg) ==
    IF cfg.smoothing.enabled /\ Len(pts) >= cfg.smoothing.min_points
        THEN IF cfg.smoothing.algorithm = "gaussian"
                THEN smooth_gaussian(pts, cfg.smoothing.window_size)
             ELSE IF cfg.smoothing.algorithm = "moving_average"
                THEN smooth_moving_average(pts, cfg.smoothing.window_size)
             ELSE simplify_rdp(pts, cfg.smoothing.rdp_epsilon)
        ELSE pts

\* process_stroke, lines 248-254
straightened(pts, cfg) ==
    IF cfg.line_straightening.enabled
        THEN straighten_line(pts, cfg.line_straightening.straightness_threshold,
                             cfg.line_straightening.min_length,
                             cfg.line_straightening.max_points)
        ELSE pts

\* process_stroke, lines 256-263
normalized(pts, cfg) ==
    IF cfg.pressure_normalization.enabled
        THEN normalize_pressure(pts, cfg.pressure_normalization.target_min,
                                cfg.pressure_normalization.target_max,
                                cfg.pressure_normalization.low_percentile,
                                cfg.pressure_normalization.high_percentile)
        ELSE pts

\* faulty variant: the straight-line snap comes before the smoothing
process_stroke_snap_first(pts, cfg) == normalized(smoothed(straightened(pts, cfg), cfg), cfg)

\* process_stroke: smoothing, then the straight-line snap, then the pressures
process_stroke(pts, cfg) == normalized(straightened(smoothed(pts, cfg), cfg), cfg)

\* ------------------------------------------------------------- device: process_file, step by step
\* A file on the disk: the blocks rmscene reads from it and writes to it.
Absent == [exists |-> FALSE, blocks |-> <<>>]
File(blocks) == [exists |-> TRUE, blocks |-> blocks]

\* a file whose writer failed before its last block
HalfWritten(blocks) == File(SubSeq(blocks, 1, Len(blocks) - 1))

\* a SceneLineItemBlock with its Line, and any other block
Line(tool, pts) == [kind |-> "line", tool |-> tool, points |-> pts]
OtherBlock == [kind |-> "other", tool |-> 0, points |-> <<>>]

\* no process_file call is running
NoCall == [pc |-> "none", path |-> NoPath, blocks |-> <<>>, lines_processed |-> 0, lines_skipped |-> 0,
           error |-> "none", original |-> [rm |-> Absent, tmp |-> Absent, bak |-> Absent]]

\* faulty variant: every tool's strokes go through the pipeline
should_process_line_any_tool(line, cfg) == TRUE

\* FileProcessor._should_process_line
should_process_line(line, cfg) ==
    IF line.tool \in cfg.processing.skip_tools THEN FALSE
    ELSE IF cfg.processing.only_tools # {} /\ line.tool \notin cfg.processing.only_tools
        THEN FALSE
    ELSE TRUE

\* process_file, lines 91-118, for one block: what becomes of it and how it
\* is counted
LineResult(block, cfg) ==
    IF block.kind # "line" THEN [block |-> block, count |-> "none"]
    ELSE IF ~should_process_line(block, cfg) THEN [block |-> block, count |-> "skipped"]
    ELSE IF Len(block.points) < 2 THEN [block |-> block, count |-> "skipped"]
    ELSE LET new_points == process_stroke(block.points, cfg)
         IN  IF new_points # block.points
                THEN [block |-> [block EXCEPT !.points = new_points], count |-> "processed"]
                ELSE [block |-> block, count |-> "skipped"]

\* process_file, lines 86-118: the loop over the blocks of the file
process_lines(blocks, cfg) ==
    LET r == [i \in DOMAIN blocks |-> LineResult(blocks[i], cfg)]
    IN  [blocks |-> [i \in DOMAIN blocks |-> r[i].block],
         lines_processed |-> Cardinality({i \in DOMAIN blocks : r[i].count = "processed"}),
         lines_skipped |-> Cardinality({i \in DOMAIN blocks : r[i].count = "skipped"}),
         modified |-> \E i \in DOMAIN blocks : r[i].count = "processed"]

\* process_file returns False after an error: the scan goes on to the hand-off
process_file_error(error) ==
    /\ proc' = [proc EXCEPT !.pc = "returned", !.error = error]
    /\ Handoff(watcher.path)

\* process_file, lines 120-127: after the loop over the blocks, r its result:
\* nothing modified returns True without a write, else _write_safely follows
process_file_looped(r) ==
    /\ proc' = [proc EXCEPT !.pc = IF r.modified THEN "write_temp" ELSE "mark",
                            !.blocks = r.blocks,
                            !.lines_processed = r.lines_processed,
                            !.lines_skipped = r.lines_skipped]
    /\ watcher' = IF r.modified THEN watcher
                  ELSE [watcher EXCEPT !.pc = "mark", !.rewrite = "unchanged"]
    /\ UNCHANGED <<idle_triggered, cloud_queue, handoffs, queue_file>>

\* faulty variant: the temp file is opened before the page is read
process_file_read_opens_temp(read_ok) ==
    /\ watcher.pc = "process"
    /\ proc.pc = "read"
    /\ disk' = [disk EXCEPT ![watcher.path].tmp = File(<<>>)]
    /\ IF ~read_ok
         THEN process_file_error("read")
         ELSE process_file_looped(process_lines(disk[watcher.path].rm.blocks, config))
    /\ UNCHANGED <<cloud_vars, idle_threshold, cloud_enabled, clock, mtime, marker,
                   file_mtimes, file_last_change, processed_mtimes, observed, changed_now,
                   finished, config, stroke_in, stroke_out>>

\* process_file, lines 78-118: read the blocks (a failure is logged and False
\* returned) and run the pipeline on every stroke.
process_file_read(read_ok) ==
    /\ watcher.pc = "process"
    /\ proc.pc = "read"
    /\ IF ~read_ok
         THEN process_file_error("read")
         ELSE process_file_looped(process_lines(disk[watcher.path].rm.blocks, config))
    /\ UNCHANGED <<cloud_vars, idle_threshold, cloud_enabled, clock, mtime, marker,
                   file_mtimes, file_last_change, processed_mtimes, observed, changed_now,
                   finished, config, disk, stroke_in, stroke_out>>

\* what a write to the disk can do: succeed, fail with part of the file
\* written, or fail before the file exists
WriteOutcomes == {"ok", "partial", "no_file"}

\* _write_safely, lines 145-147: write the blocks to path + ".inksight_tmp".
write_safely_temp(outcome) ==
    /\ proc.pc = "write_temp"
    /\ disk' = [disk EXCEPT ![watcher.path].tmp =
                    IF outcome = "ok" THEN File(proc.blocks)
                    ELSE IF outcome = "partial" THEN HalfWritten(proc.blocks)
                    ELSE @]
    /\ proc' = [proc EXCEPT !.pc = IF outcome = "ok" THEN "copy_backup" ELSE "except"]
    /\ UNCHANGED <<cloud_vars, device_vars, config, stroke_in, stroke_out>>

\* _write_safely, line 150: shutil.copy2 of the original to
\* path + ".inksight_bak".
write_safely_backup(outcome) ==
    /\ proc.pc = "copy_backup"
    /\ disk' = [disk EXCEPT ![watcher.path].bak =
                    IF outcome = "ok" THEN disk[watcher.path].rm
                    ELSE IF outcome = "partial" THEN HalfWritten(disk[watcher.path].rm.blocks)
                    ELSE @]
    /\ proc' = [proc EXCEPT !.pc = IF outcome = "ok" THEN "rename" ELSE "except"]
    /\ UNCHANGED <<cloud_vars, device_vars, config, stroke_in, stroke_out>>

\* faulty variant: the new blocks are copied over the original instead of
\* renamed over it, and a failed copy leaves part of them there
write_safely_rename_copying(renamed) ==
    /\ proc.pc = "rename"
    /\ disk' = [disk EXCEPT ![watcher.path].rm =
                    IF renamed THEN disk[watcher.path].tmp ELSE HalfWritten(proc.blocks)]
    /\ mtime' = [mtime EXCEPT ![watcher.path] = clock]
    /\ proc' = [proc EXCEPT !.pc = IF renamed THEN "mark" ELSE "except"]
    /\ watcher' = IF renamed THEN [watcher EXCEPT !.pc = "mark", !.rewrite = "changed"]
                  ELSE watcher
    /\ UNCHANGED <<cloud_vars, idle_threshold, cloud_enabled, clock, marker, file_mtimes,
                   file_last_change, idle_triggered, processed_mtimes, cloud_queue,
                   observed, changed_now, finished, handoffs, queue_file, config, stroke_in, stroke_out>>

\* _write_safely, line 153: os.rename of the temp file over the original, in
\* one step; the renamed file carries the time of its writing.  Line 156: the
\* backup stays.
write_safely_rename(renamed) ==
    /\ proc.pc = "rename"
    /\ IF renamed
         THEN /\ disk' = [disk EXCEPT ![watcher.path].rm = disk[watcher.path].tmp,
                                      ![watcher.path].tmp = Absent]
              /\ mtime' = [mtime EXCEPT ![watcher.path] = clock]
              /\ proc' = [proc EXCEPT !.pc = "mark"]
              /\ watcher' = [watcher EXCEPT !.pc = "mark", !.rewrite = "changed"]
         ELSE /\ proc' = [proc EXCEPT !.pc = "except"]
              /\ UNCHANGED <<disk, mtime, watcher>>
    /\ UNCHANGED <<cloud_vars, idle_threshold, cloud_enabled, clock, marker, file_mtimes,
                   file_last_change, idle_triggered, processed_mtimes, cloud_queue,
                   observed, changed_now, finished, handoffs, queue_file, config, stroke_in, stroke_out>>

\* _write_safely, lines 158-162, and process_file, lines 126-130: the temp
\* file is removed if it exists, the error is raised again, logged by
\* process_file and False returned.
write_safely_except ==
    /\ proc.pc = "except"
    /\ disk' = [disk EXCEPT ![watcher.path].tmp = Absent]
    /\ process_file_error("write")
    /\ UNCHANGED <<cloud_vars, idle_threshold, cloud_enabled, clock, mtime, marker,
                   file_mtimes, file_last_change, processed_mtimes, observed, changed_now,
                   finished, config, stroke_in, stroke_out>>

\* no stroke has been handed to a kernel
NoKernel == [kernel |-> "none", points |-> <<>>]

\* ------------------------------------------------------------- calls of the kernels
\* process_stroke called on a stroke under a configuration
call_process_stroke ==
    /\ stroke_out = NoKernel
    /\ stroke_in # <<>>
    /\ stroke_out' = [kernel |-> "process_stroke", points |-> process_stroke(stroke_in, config)]
    /\ UNCHANGED <<cloud_vars, device_vars, config, disk, proc, stroke_in>>

\* normalize_pressure called on a stroke with the configuration's targets and
\* percentiles
call_normalize_pressure ==
    /\ stroke_out = NoKernel
    /\ stroke_in # <<>>
    /\ stroke_out' =
          [kernel |-> "normalize_pressure",
           points |-> normalize_pressure(stroke_in,
                                         config.pressure_normalization.target_min,
                                         config.pressure_normalization.target_max,
                                         config.pressure_normalization.low_percentile,
                                         config.pressure_normalization.high_percentile)]
    /\ UNCHANGED <<cloud_vars, device_vars, config, disk, proc, stroke_in>>

\* the window sizes and the epsilons the kernels are called with
WindowSizes == 0..7
Epsilons == 0..3

\* smooth_gaussian called on a stroke
call_smooth_gaussian(window_size) ==
    /\ stroke_out = NoKernel
    /\ stroke_in # <<>>
    /\ stroke_out' = [kernel |-> "smooth_gaussian", points |-> smooth_gaussian(stroke_in, window_size),
                      window_size |-> window_size]
    /\ UNCHANGED <<cloud_vars, device_vars, config, disk, proc, stroke_in>>

\* smooth_moving_average called on a stroke
call_smooth_moving_average(window_size) ==
    /\ stroke_out = NoKernel
    /\ stroke_in # <<>>
    /\ stroke_out' = [kernel |-> "smooth_moving_average",
                      points |-> smooth_moving_average(stroke_in, window_size),
                      window_size |-> window_size]
    /\ UNCHANGED <<cloud_vars, device_vars, config, disk, proc, stroke_in>>

\* simplify_rdp called on a stroke
call_simplify_rdp(epsilon) ==
    /\ stroke_out = NoKernel
    /\ stroke_in # <<>>
    /\ stroke_out' = [kernel |-> "simplify_rdp", points |-> simplify_rdp(stroke_in, epsilon),
                      epsilon |-> epsilon]
    /\ UNCHANGED <<cloud_vars, device_vars, config, disk, proc, stroke_in>>

\* the thresholds, least lengths and greatest numbers of points the snap is
\* called with
Thresholds == {5, 15}
MinLengths == {0, 50, 100}
SnapMaxPoints == {4, 30}

\* straighten_line called on a stroke
call_straighten_line(threshold, min_length, max_points) ==
    /\ stroke_out = NoKernel
    /\ stroke_out' = [kernel |-> "straighten_line",
                      points |-> straighten_line(stroke_in, threshold, min_length, max_points),
                      threshold |-> threshold, min_length |-> min_length,
                      max_points |-> max_points]
    /\ UNCHANGED <<cloud_vars, device_vars, config, disk, proc, stroke_in>>

\* simplify_rdp called on what simplify_rdp returned, with the same epsilon
call_simplify_rdp_again ==
    /\ stroke_out.kernel = "simplify_rdp"
    /\ stroke_out' = [kernel |-> "simplify_rdp twice",
                      points |-> simplify_rdp(stroke_out.points, stroke_out.epsilon),
                      epsilon |-> stroke_out.epsilon,
                      once |-> stroke_out.points]
    /\ UNCHANGED <<cloud_vars, device_vars, config, disk, proc, stroke_in>>

\* ------------------------------------------------------------- cloud/app/services/processor.py
\* Tool IDs to skip (highlighter, eraser)
SKIP_TOOLS == {6, 8}

\* smoothing/presets.py: what process_file reads of the three presets
PRESETS ==
    [minimal    |-> [smoothing_enabled |-> TRUE, line_straightening_enabled |-> FALSE],
     medium     |-> [smoothing_enabled |-> TRUE, line_straightening_enabled |-> TRUE],
     aggressive |-> [smoothing_enabled |-> TRUE, line_straightening_enabled |-> TRUE]]

\* the pipeline's configuration under a preset: the device's defaults, which
\* are the medium preset's values, with the preset's switches
PresetConfig(preset) ==
    [DefaultConfig EXCEPT !.smoothing.enabled = preset.smoothing_enabled,
                          !.line_straightening.enabled = preset.line_straightening_enabled]

\* cloud process_file, lines 66-103, for one block; the pipeline is the
\* device's, which the cloud's smoothing package copies
StrokeResult(block, preset) ==
    IF block.kind # "line" THEN [block |-> block, count |-> "none"]
    ELSE IF block.tool \in SKIP_TOOLS THEN [block |-> block, count |-> "skipped"]
    ELSE IF Len(block.points) < 2 THEN [block |-> block, count |-> "skipped"]
    ELSE LET new_points == process_stroke(block.points, PresetConfig(preset))
         IN  IF new_points # block.points
                THEN [block |-> [block EXCEPT !.points = new_points], count |-> "processed"]
                ELSE [block |-> block, count |-> "skipped"]

\* faulty variant: a changed stroke counts as straightened when the preset
\* straightens
ProcessingStats_straightened(r, preset) ==
    LET processed == {i \in DOMAIN r : r[i].count = "processed"}
    IN  [blocks |-> [i \in DOMAIN r |-> r[i].block],
         strokes_processed |-> Cardinality(processed),
         strokes_smoothed |-> IF preset.smoothing_enabled THEN Cardinality(processed) ELSE 0,
         strokes_straightened |->
             IF preset.line_straightening_enabled THEN Cardinality(processed) ELSE 0,
         strokes_skipped |-> Cardinality({i \in DOMAIN r : r[i].count = "skipped"})]

\* cloud process_file, lines 63-103: the blocks after the loop and the stats
\* it counted; strokes_smoothed goes up with strokes_processed when the preset
\* smooths (lines 93-94), strokes_straightened is never touched (95-98)
ProcessingStats(r, preset) ==
    LET processed == {i \in DOMAIN r : r[i].count = "processed"}
    IN  [blocks |-> [i \in DOMAIN r |-> r[i].block],
         strokes_processed |-> Cardinality(processed),
         strokes_smoothed |-> IF preset.smoothing_enabled THEN Cardinality(processed) ELSE 0,
         strokes_straightened |-> 0,
         strokes_skipped |-> Cardinality({i \in DOMAIN r : r[i].count = "skipped"})]

\* cloud process_file, lines 63-103: the loop over the blocks and its stats
process_strokes(blocks, preset) ==
    ProcessingStats([i \in DOMAIN blocks |-> StrokeResult(blocks[i], preset)], preset)

\* the page is also uploaded under a preset, and the cloud's process_file
\* runs its loop on it
upload_processed(name) ==
    /\ proc.pc = "read"
    /\ stroke_out = NoKernel
    /\ stroke_out' = [kernel |-> "cloud process_file", points |-> <<>>, preset |-> name,
                      strokes |-> process_strokes(disk[proc.path].rm.blocks, PRESETS[name])]
    /\ UNCHANGED <<cloud_vars, device_vars, config, disk, proc, stroke_in>>

\* ------------------------------------------------------------- specification
\* the cloud service's and the watcher's specifications leave the file
\* contents and the kernels at rest
ProcessorOff ==
    /\ config = DefaultConfig
    /\ disk = [path \in Paths |-> [rm |-> Absent, tmp |-> Absent, bak |-> Absent]]
    /\ proc = NoCall
    /\ stroke_in = <<>>
    /\ stroke_out = NoKernel

\* the daemon as FileWatcher.__init__ leaves it, no page written yet
DeviceStart ==
    /\ clock = 0
    /\ mtime = [path \in Paths |-> NoFile]
    /\ marker = [path \in Paths |-> <<>>]
    /\ file_mtimes = [path \in Paths |-> NoTime]
    /\ file_last_change = [path \in Paths |-> NoTime]
    /\ idle_triggered = {}
    /\ processed_mtimes = [path \in Paths |-> NoTime]
    /\ cloud_queue = <<>>
    /\ watcher = Sleeping
    /\ observed = [path \in Paths |-> [mtime |-> NoTime, at |-> NoTime]]
    /\ changed_now = {}
    /\ finished = [path \in Paths |-> "no"]
    /\ handoffs = [path \in Paths |-> 0]
    /\ queue_file = QueueFile(<<>>)

\* the cloud service's specifications leave the device at rest
DeviceOff ==
    /\ idle_threshold = MaxIdleThreshold
    /\ cloud_enabled = FALSE
    /\ DeviceStart

Init ==
    /\ api_keys \in {{}, ConfiguredKeys}
    /\ jobs = <<>>
    /\ processing_task = NoTask
    /\ tasks = <<>>
    /\ files = {}
    /\ now = 0
    /\ processing_order = <<>>
    /\ response = NoResponse
    /\ DeviceOff
    /\ ProcessorOff

JobIds == 1..MaxJobs
Limits == 1..MaxLimit

Worker ==
    \E t \in DOMAIN tasks :
        \/ process_queue_idle(t)
        \/ process_queue_wake(t)
        \/ process_queue_next(t)
        \/ \E outcome \in Outcomes : run_in_executor(t, outcome)
        \/ executor_raises(t)
        \/ process_job_finish(t)
        \/ process_queue_except(t)
        \/ process_queue_pause(t)

Upload ==
    \E header \in Headers, rm_filename \in BOOLEAN, size_ok \in BOOLEAN, preset \in Presets :
        transform_file(header, rm_filename, size_ok, preset)

Next == Upload \/ Worker

Spec == Init /\ [][Next]_vars

\* The worker task is scheduled whenever it can run, and every executor call
\* returns or raises.
LiveSpec == Spec /\ WF_vars(Worker)

\* Spec leaves out the uploads that are refused, which change nothing but the
\* answer.  UploadSpec is the upload handler with them, and with the worker
\* task created but not yet scheduled.
Rejected ==
    \E header \in Headers, rm_filename \in BOOLEAN, size_ok \in BOOLEAN, preset \in Presets :
        transform_file_rejected(header, rm_filename, size_ok, preset)

UploadNext == Upload \/ Rejected

UploadSpec == Init /\ [][UploadNext]_vars

\* The worker with every outcome of process_file, and an executor that
\* always runs it.
OutcomesWorker ==
    \E t \in DOMAIN tasks :
        \/ process_queue_idle(t)
        \/ process_queue_wake(t)
        \/ process_queue_next(t)
        \/ \E outcome \in AllOutcomes : run_in_executor(t, outcome)
        \/ process_job_finish(t)
        \/ process_queue_pause(t)

OutcomesNext == Upload \/ OutcomesWorker

OutcomesSpec == Init /\ [][OutcomesNext]_vars

\* the page xochitl writes while the watcher is followed over many scans
Written == {"page1.rm"}

\* The device daemon, with the cloud service's variables at rest: the
\* configuration is read once, then the watcher polls while xochitl writes.
WatcherInit ==
    /\ api_keys = {}
    /\ jobs = <<>>
    /\ processing_task = NoTask
    /\ tasks = <<>>
    /\ files = {}
    /\ now = 0
    /\ processing_order = <<>>
    /\ response = NoResponse
    /\ idle_threshold \in 0..MaxIdleThreshold
    /\ cloud_enabled \in BOOLEAN
    /\ DeviceStart
    /\ ProcessorOff

WatcherNext ==
    \/ Tick
    \/ \E path \in Written : xochitl_writes(path)
    \/ scan_begin
    \/ \E path \in Paths : scan_file(path)
    \/ scan_should_process
    \/ \E rewrite \in Rewrites : process_file_rewrite(rewrite)
    \/ \E marker_written \in BOOLEAN : process_file_mark(marker_written)
    \/ scan_end

WatcherSpec == WatcherInit /\ [][WatcherNext]_vars

\* The scans of one moment: a notebook with two pages, each written once by
\* xochitl, and a watcher that takes a page as idle at once.
xochitl_creates(path) ==
    /\ mtime[path] = NoFile
    /\ xochitl_writes(path)

ScanInit ==
    /\ WatcherInit
    /\ idle_threshold = 0

ScanNext ==
    \/ \E path \in Paths : xochitl_creates(path)
    \/ scan_begin
    \/ \E path \in Paths : scan_file(path)
    \/ scan_should_process
    \/ \E rewrite \in Rewrites : process_file_rewrite(rewrite)
    \/ \E marker_written \in BOOLEAN : process_file_mark(marker_written)
    \/ scan_end

ScanSpec == ScanInit /\ [][ScanNext]_vars

\* The scans and the restarts of the daemon while the queue file cannot
\* always be written.
SaveNext ==
    \/ ScanNext
    \/ daemon_restart
    \/ queue_file_unwritable
    \/ queue_file_writable

SaveSpec == ScanInit /\ [][SaveNext]_vars

\* The daemon, processing a page as soon as a scan finds it unchanged, while
\* older copies of the page are put back.
RestoreInit ==
    /\ WatcherInit
    /\ idle_threshold = 0
    /\ cloud_enabled = FALSE

RestoreNext == WatcherNext \/ \E path \in Written : file_restored(path)

RestoreSpec == RestoreInit /\ [][RestoreNext]_vars

\* FileWatcher.run, lines 148-154: scan_once is called again after every
\* sleep, and every step of a scan returns; time.time() advances.
WatcherStep ==
    \/ scan_begin
    \/ \E path \in Paths : scan_file(path)
    \/ scan_should_process
    \/ \E rewrite \in Rewrites : process_file_rewrite(rewrite)
    \/ \E marker_written \in BOOLEAN : process_file_mark(marker_written)
    \/ scan_end

WatcherLiveSpec == WatcherSpec /\ WF_vars(WatcherStep) /\ WF_vars(Tick)

\* The daemon with its restarts.
RestartNext == WatcherNext \/ daemon_restart

RestartSpec == WatcherInit /\ [][RestartNext]_vars

\* One call of process_file, step by step.  The strokes a page can hold: a
\* single point, two points that no kernel moves, two points with other
\* pressures, the two-point diagonal, and five points off a straight line.
Pt(x, y, pressure) == Point(x, y, 1, 0, 2, pressure)
Dot == <<Pt(10, 10, 100)>>
ShortFlat == <<Pt(0, 0, 127), Pt(10, 0, 127)>>
Short == <<Pt(0, 0, 50), Pt(10, 0, 200)>>
Diagonal == <<Pt(200, 200, 128), Pt(250, 250, 128)>>
Wavy == <<Pt(0, 0, 50), Pt(10, 8, 100), Pt(20, 0, 150), Pt(30, 8, 200), Pt(40, 0, 250)>>

\* tool ids: 2 is a pen, 4 another pen, 6 and 8 are skipped by default
PageBlocks ==
    {Line(2, Dot), Line(2, ShortFlat), Line(2, Short), Line(4, Short), Line(6, Short),
     Line(2, Diagonal), Line(2, Wavy), Line(6, Wavy), OtherBlock}

Pages == UNION {[1..n -> PageBlocks] : n \in 1..MaxBlocks}

ProcessorConfigs ==
    {c \in Configs : /\ c.smoothing.enabled
                     /\ c.smoothing.algorithm = "gaussian"
                     /\ c.line_straightening.enabled}

\* The watcher has found the page, written at time 0, idle in the scan at
\* time 1 and due, and calls process_file on it; a backup of an earlier
\* rewrite may lie beside it.
ProcessorInit ==
    /\ api_keys = {}
    /\ jobs = <<>>
    /\ processing_task = NoTask
    /\ tasks = <<>>
    /\ files = {}
    /\ now = 0
    /\ processing_order = <<>>
    /\ response = NoResponse
    /\ idle_threshold = 0
    /\ cloud_enabled \in BOOLEAN
    /\ clock = 1
    /\ mtime = [path \in Paths |-> IF path = "page1.rm" THEN 0 ELSE NoFile]
    /\ marker = [path \in Paths |-> <<>>]
    /\ file_mtimes = [path \in Paths |-> IF path = "page1.rm" THEN 0 ELSE NoTime]
    /\ file_last_change = [path \in Paths |-> IF path = "page1.rm" THEN 1 ELSE NoTime]
    /\ idle_triggered = {}
    /\ processed_mtimes = [path \in Paths |-> NoTime]
    /\ cloud_queue = <<>>
    /\ watcher = [pc |-> "process", now |-> 1, todo |-> {"page1.rm"}, path |-> "page1.rm",
                  rewrite |-> "no"]
    /\ observed = [path \in Paths |-> IF path = "page1.rm" THEN [mtime |-> 0, at |-> 1]
                                    ELSE [mtime |-> NoTime, at |-> NoTime]]
    /\ changed_now = {"page1.rm"}
    /\ finished = [path \in Paths |-> "no"]
    /\ handoffs = [path \in Paths |-> 0]
    /\ queue_file = QueueFile(<<>>)
    /\ config \in ProcessorConfigs
    /\ \E page \in Pages, bak \in {Absent, File(<<OtherBlock>>)} :
          disk = [path \in Paths |->
                    IF path = "page1.rm" THEN [rm |-> File(page), tmp |-> Absent, bak |-> bak]
                    ELSE [rm |-> Absent, tmp |-> Absent, bak |-> Absent]]
    /\ proc = [NoCall EXCEPT !.pc = "read", !.path = "page1.rm",
                             !.original = disk["page1.rm"]]
    /\ stroke_in = <<>>
    /\ stroke_out = NoKernel

ProcessorNext ==
    \/ \E read_ok \in BOOLEAN : process_file_read(read_ok)
    \/ \E outcome \in WriteOutcomes : write_safely_temp(outcome)
    \/ \E outcome \in WriteOutcomes : write_safely_backup(outcome)
    \/ \E renamed \in BOOLEAN : write_safely_rename(renamed)
    \/ write_safely_except
    \/ \E marker_written \in BOOLEAN : process_file_mark(marker_written)
    \/ \E name \in DOMAIN PRESETS : upload_processed(name)

ProcessorSpec == ProcessorInit /\ [][ProcessorNext]_vars

\* The kernels of smoothing.py on their own.  The strokes handed to them: the
\* strokes of the pages, four and five points off a straight line, five
\* points nearly on one, and strokes of up to MaxPoints points along a line
\* whose first, inner and last points have the pressures a, c and b.
Wavy4 == SubSeq(Wavy, 1, 4)
NearlyStraight == <<Pt(0, 0, 50), Pt(20, 2, 100), Pt(40, 0, 150), Pt(60, 2, 200), Pt(80, 0, 250)>>
Pressures == {0, 100, 255}

PressureStrokes ==
    {[i \in 1..n |-> Pt(i, 0, IF i = 1 THEN a ELSE IF i = n THEN b ELSE c)] :
        n \in 2..MaxPoints, a \in Pressures, b \in Pressures, c \in Pressures}

Strokes == {Dot, ShortFlat, Short, Diagonal, Wavy, Wavy4, NearlyStraight} \cup PressureStrokes

StrokeInit ==
    /\ api_keys = {}
    /\ jobs = <<>>
    /\ processing_task = NoTask
    /\ tasks = <<>>
    /\ files = {}
    /\ now = 0
    /\ processing_order = <<>>
    /\ response = NoResponse
    /\ DeviceOff
    /\ config \in Configs
    /\ disk = [path \in Paths |-> [rm |-> Absent, tmp |-> Absent, bak |-> Absent]]
    /\ proc = NoCall
    /\ stroke_in \in Strokes
    /\ stroke_out = NoKernel

StrokeNext == call_process_stroke \/ call_normalize_pressure

StrokeSpec == StrokeInit /\ [][StrokeNext]_vars


\* The smoothing kernels and the snap on their own, called with their own
\* arguments.  The strokes: those of the pages, and every stroke of up to
\* MaxZigZag points that steps 20 to the right from point to point at one of
\* three heights, each point with its own speed, direction, width and pressure,
\* and a gentle bend.
MaxZigZag == 5
Heights == {0, 8, 20}

ZigZags ==
    UNION {{[i \in 1..n |-> Point(20 * (i - 1), h[i], i, 10 + i, 2 + i, 40 * i)] :
                h \in [1..n -> Heights]} : n \in 2..MaxZigZag}

\* five points along a gentle bend
Bend == <<Pt(0, 0, 50), Pt(20, 0, 100), Pt(40, 2, 150), Pt(60, 8, 200), Pt(80, 8, 250)>>

\* the pen held still: two and three points at one place
Still == {<<Pt(5, 5, 100), Pt(5, 5, 200)>>, <<Pt(5, 5, 100), Pt(5, 5, 150), Pt(5, 5, 200)>>}

KernelStrokes == {Dot, Short, Diagonal, Wavy, Wavy4, NearlyStraight, Bend} \cup Still \cup ZigZags

KernelInit ==
    /\ api_keys = {}
    /\ jobs = <<>>
    /\ processing_task = NoTask
    /\ tasks = <<>>
    /\ files = {}
    /\ now = 0
    /\ processing_order = <<>>
    /\ response = NoResponse
    /\ DeviceOff
    /\ config = DefaultConfig
    /\ disk = [path \in Paths |-> [rm |-> Absent, tmp |-> Absent, bak |-> Absent]]
    /\ proc = NoCall
    /\ stroke_in \in KernelStrokes
    /\ stroke_out = NoKernel

KernelNext ==
    \/ \E window_size \in WindowSizes : call_smooth_gaussian(window_size)
    \/ \E window_size \in WindowSizes : call_smooth_moving_average(window_size)
    \/ \E epsilon \in Epsilons : call_simplify_rdp(epsilon)
    \/ call_simplify_rdp_again
    \/ \E threshold \in Thresholds, min_length \in MinLengths, max_points \in SnapMaxPoints :
          call_straighten_line(threshold, min_length, max_points)

KernelSpec == KernelInit /\ [][KernelNext]_vars


\* ------------------------------------------------------------- properties
Terminal == {COMPLETED, FAILED}
Processing == {i \in DOMAIN jobs : jobs[i].status = PROCESSING}
Tenant(header) == get_user_id_from_key(verify_api_key(header))
Authenticated(header) == verify_api_key(header) # Unauthorized
JobsOf(user_id) == {i \in DOMAIN jobs : jobs[i].user_id = user_id}

\* C1: in every reachable state of the job queue at most one job record has
\* status Processing.
C1_AtMostOneProcessing == Cardinality(Processing) <= 1

\* C1 witness: a job is Processing while another one, enqueued meanwhile, waits.
C1_Witness ==
    \E i, j \in DOMAIN jobs : jobs[i].status = PROCESSING /\ jobs[j].status = QUEUED

\* C2: jobs enter Processing in FIFO order of created_at: of two jobs that
\* both entered Processing, the one with the earlier created_at entered first.
C2_FifoByCreatedAt ==
    \A a, b \in DOMAIN processing_order :
        jobs[processing_order[a]].created_at < jobs[processing_order[b]].created_at
            => a < b

\* C2 witness: two jobs with different created_at have both entered Processing.
C2_Witness ==
    \E a, b \in DOMAIN processing_order :
        jobs[processing_order[a]].created_at < jobs[processing_order[b]].created_at

\* C3: for every job J and every authenticated requester whose tenant is not
\* J's, GET /status/J and GET /download/J answer 403 and the answer carries
\* nothing but the error detail, whatever J's status and whether or not J's
\* output file is on disk.
C3_NoCrossTenantAccess ==
    \A header \in Headers, job_id \in DOMAIN jobs :
        (Authenticated(header) /\ Tenant(header) # jobs[job_id].user_id) =>
            /\ LET answer == get_job_status(header, job_id) IN
                 answer.code = 403 /\ DOMAIN answer.body = {"detail"}
            /\ \A present \in BOOLEAN :
                 LET answer == download_result(header, job_id, present) IN
                 answer.code = 403 /\ DOMAIN answer.body = {"detail"}

\* C3 witness: a completed job whose output file was written, asked for by
\* the other tenant, who is refused.
C3_Witness ==
    \E header \in Headers, job_id \in DOMAIN jobs :
        /\ Authenticated(header)
        /\ Tenant(header) # jobs[job_id].user_id
        /\ jobs[job_id].status = COMPLETED
        /\ OutputFile(jobs[job_id].user_id, job_id) \in files
        /\ download_result(header, job_id, TRUE).code = 403

HistoryIds(header, limit) ==
    LET items == get_transform_history(header, limit).body.transforms
    IN  {items[i].job_id : i \in DOMAIN items}

\* C4: the history of tenant A holds no job of another tenant, and holds every
\* job of A when A has at most limit jobs.
C4_ListIsolation ==
    \A header \in Headers, limit \in Limits :
        Authenticated(header) =>
            LET listed == HistoryIds(header, limit)
                own == JobsOf(Tenant(header))
            IN  /\ get_transform_history(header, limit).code = 200
                /\ \A id \in listed : jobs[id].user_id = Tenant(header)
                /\ Cardinality(own) <= limit => listed = own

\* C4 witness: two tenants have jobs and the history of one of them lists its
\* own job.
C4_Witness ==
    \E header \in Headers, limit \in Limits :
        /\ Authenticated(header)
        /\ HistoryIds(header, limit) # {}
        /\ HistoryIds(header, limit) = JobsOf(Tenant(header))
        /\ \E i \in DOMAIN jobs : jobs[i].user_id # Tenant(header)

\* C5: every enqueued job eventually reaches Completed or Failed, when the
\* worker keeps being scheduled and every executor call returns or raises.
C5_NoJobDropped ==
    \A id \in JobIds :
        Known(id) ~> (Known(id) /\ jobs[id].status \in Terminal)

\* C5 witness: two jobs were enqueued and both have reached a terminal status.
C5_Witness ==
    /\ Len(jobs) >= 2
    /\ \A i \in DOMAIN jobs : jobs[i].status \in Terminal

\* C6: at most one worker task is active, and a worker task is created only
\* when there was none or every earlier one had finished: all tasks but the
\* last are done, and processing_task is the last one created.
C6_SingleWorker ==
    /\ Cardinality(ActiveTasks) <= 1
    /\ \A t \in DOMAIN tasks : t < Len(tasks) => TaskDone(t)
    /\ processing_task = Len(tasks)
    /\ jobs # <<>> => processing_task # NoTask

\* C6 witness: after a second enqueue there is still the one worker task.
C6_Witness ==
    /\ Len(jobs) >= 2
    /\ Len(tasks) = 1
    /\ ~TaskDone(processing_task)

C7_EnqueueStep ==
    \A id \in JobIds :
    (id = Len(jobs) + 1 /\ Len(jobs') = id) =>
        /\ Known(id)'
        /\ get_job(id)' = jobs'[id]
        /\ jobs'[id].job_id = id
        /\ jobs'[id].status = QUEUED
        /\ jobs'[id].progress = 0
        /\ jobs'[id].started_at = NoTime
        /\ TransformResponse(jobs'[id]).status = QUEUED
        /\ \A t \in DOMAIN tasks' : tasks'[t].job # id

\* C7: a step that enqueues a job leaves it observable as Queued, with
\* progress 0 and no started_at, the upload's answer says Queued, and no
\* worker task holds the job.
C7_QueuedOnEnqueue == [][C7_EnqueueStep]_vars

\* C7 witness: a job was enqueued while the worker was busy with another one,
\* and is Queued.
C7_Witness ==
    /\ Len(jobs) >= 2
    /\ jobs[Len(jobs)].status = QUEUED
    /\ jobs[Len(jobs)].progress = 0
    /\ processing_task # NoTask
    /\ tasks[processing_task].pc = "exec"

\* C8: a job with status Completed has output_path present, progress 100 and
\* no error.
C8_CompletedShape ==
    \A i \in DOMAIN jobs :
        jobs[i].status = COMPLETED =>
            /\ jobs[i].output_path # None
            /\ jobs[i].progress = 100
            /\ jobs[i].error_message = None

\* C8 witness: a job has completed.
C8_Witness == \E i \in DOMAIN jobs : jobs[i].status = COMPLETED

\* C9: a job with status Failed has an error message, whether the failure is
\* a result of the processor (for every way a run of process_file on a job
\* of the queue can fail) or an exception caught by the worker loop.
C9_FailedHasError ==
    /\ \A i \in DOMAIN jobs : jobs[i].status = FAILED => jobs[i].error_message # None
    /\ \A i \in DOMAIN jobs, outcome \in AllOutcomes, utcnow \in Instants :
        LET result == process_file(jobs[i], outcome) IN
        /\ result.status = FAILED =>
              FinishedJob(jobs[i], result, utcnow).error_message # None
        /\ ExceptJob(jobs[i], Raised.error, utcnow).error_message # None

\* C9 witness: one job failed by the processor's result, another by an
\* exception caught in the worker loop.
C9_Witness ==
    \E i, j \in DOMAIN jobs :
        /\ jobs[i].status = FAILED /\ jobs[i].error_message = "Failed to read .rm file"
        /\ jobs[j].status = FAILED /\ jobs[j].error_message = Raised.error

ProgressShape(job) ==
    /\ job.progress \in 0..100
    /\ job.status = QUEUED => job.progress = 0
    /\ job.status = PROCESSING => job.progress = 10
    /\ job.status = FAILED => job.progress = 10
    /\ job.status = COMPLETED <=> job.progress = 100

C10_ProgressStep ==
    \A i \in DOMAIN jobs :
        /\ ProgressShape(jobs[i])
        /\ ProgressShape(jobs'[i])
        /\ jobs'[i].progress >= jobs[i].progress

\* C10: progress never decreases and stays within 0..100; it is 10 from the
\* moment the job enters Processing, and 100 exactly when the job is Completed.
C10_ProgressMonotone == [][C10_ProgressStep]_vars

\* C10 witness: one job has failed with progress 10, another has completed
\* with progress 100.
C10_Witness ==
    \E i, j \in DOMAIN jobs :
        /\ jobs[i].status = FAILED /\ jobs[i].progress = 10
        /\ jobs[j].status = COMPLETED /\ jobs[j].progress = 100

\* C11: for every job created_at <= started_at <= completed_at whenever those
\* are set; started_at is set exactly when the job has left Queued, and
\* completed_at exactly when the job is Completed or Failed.
C11_TimestampOrder ==
    \A i \in DOMAIN jobs :
        LET job == jobs[i] IN
        /\ job.created_at # NoTime
        /\ (job.started_at # NoTime) <=> (job.status # QUEUED)
        /\ (job.completed_at # NoTime) <=> (job.status \in Terminal)
        /\ job.started_at # NoTime => job.created_at <= job.started_at
        /\ job.completed_at # NoTime =>
              /\ job.started_at # NoTime
              /\ job.started_at <= job.completed_at
              /\ job.created_at <= job.completed_at

\* C11 witness: a job that waited behind another one: created, started later
\* and finished, with created_at < started_at.
C11_Witness ==
    \E i \in DOMAIN jobs :
        /\ jobs[i].status \in Terminal
        /\ jobs[i].created_at < jobs[i].started_at
        /\ jobs[i].started_at <= jobs[i].completed_at

\* a job has failed and the worker's record of it
FailedWithText(i) ==
    /\ Known(i)
    /\ jobs[i].status = FAILED
    /\ jobs[i].error_message \in
          {Raised.error, process_file(jobs[i], "read_error").error}

\* C12: a failure while processing a job marks that job Failed with the error
\* text and leaves the worker running: the worker task is never done, and
\* every job that is Queued when another job has failed is later picked up
\* and reaches Completed or Failed.
C12_WorkerSurvivesFailure ==
    /\ [](\A i \in DOMAIN jobs :
            jobs[i].status = FAILED => FailedWithText(i) /\ ~TaskDone(processing_task))
    /\ \A i, j \in JobIds :
          (FailedWithText(i) /\ Known(j) /\ jobs[j].status = QUEUED)
              ~> (\E k \in DOMAIN processing_order : processing_order[k] = j
                    /\ jobs[j].status \in Terminal)

\* C12 witness: the first job processed failed by an exception caught in the
\* worker loop, and a job processed after it has completed.
C12_Witness ==
    /\ Len(processing_order) >= 2
    /\ FailedWithText(processing_order[1])
    /\ jobs[processing_order[1]].error_message = Raised.error
    /\ jobs[processing_order[2]].status = COMPLETED

\* The fields one update of a record writes together, as a reader sees them in
\* a record r or in a projection of it that has the fields named in has.
Committed(r, has) ==
    LET f(name, value) == name \in has => r[name] = value
        unset(name) == IF name \in {"started_at", "completed_at"} THEN NoTime ELSE None
        set(name) == name \in has => r[name] # unset(name)
    IN  CASE r.status = QUEUED ->
               /\ f("progress", 0) /\ f("started_at", NoTime)
               /\ f("completed_at", NoTime) /\ f("output_path", None)
               /\ f("error_message", None) /\ f("stats", None)
               /\ f("download_url", None)
          [] r.status = PROCESSING ->
               /\ f("progress", 10) /\ set("started_at")
               /\ f("completed_at", NoTime) /\ f("output_path", None)
               /\ f("error_message", None) /\ f("stats", None)
               /\ f("download_url", None)
          [] r.status = COMPLETED ->
               /\ f("progress", 100) /\ set("started_at")
               /\ set("completed_at") /\ set("output_path")
               /\ f("error_message", None) /\ set("stats")
               /\ set("download_url")
          [] r.status = FAILED ->
               /\ f("progress", 10) /\ set("started_at")
               /\ set("completed_at") /\ f("output_path", None)
               /\ set("error_message") /\ f("stats", None)
               /\ f("download_url", None)

\* C13: get and list never observe a torn job record: in every state a
\* handler can run in, the record get_job returns, the status answer and every
\* history item carry the fields of one update only (Queued as constructed,
\* Processing as started, Completed or Failed as finished).
C13_NoTornRecord ==
    /\ \A id \in DOMAIN jobs : Committed(get_job(id), DOMAIN get_job(id))
    /\ \A header \in Headers, id \in DOMAIN jobs :
          LET answer == get_job_status(header, id) IN
          answer.code = 200 =>
              /\ Committed(answer.body, DOMAIN answer.body)
              /\ answer.body = TransformStatusResponse(jobs[id])
    /\ \A header \in Headers :
          \* the longest list: a shorter one is a prefix of it
          LET answer == get_transform_history(header, MaxLimit) IN
          answer.code = 200 =>
              \A k \in DOMAIN answer.body.transforms :
                  LET item == answer.body.transforms[k] IN
                  /\ Committed(item, DOMAIN item)
                  /\ item = TransformHistoryItem(jobs[item.job_id])

\* C13 witness: between two worker steps (the executor has returned, the
\* worker has not resumed) the owner reads a job that is still Processing
\* while its output file is already written, next to a finished job.
C13_Witness ==
    \E header \in Headers, i, j \in DOMAIN jobs, t \in DOMAIN tasks :
        /\ tasks[t].pc = "ready" /\ tasks[t].job = i
        /\ tasks[t].result.status = COMPLETED
        /\ get_job_status(header, i).code = 200
        /\ get_job_status(header, i).body.status = PROCESSING
        /\ jobs[j].status \in Terminal

\* C14: for an authenticated requester GET /download/{job_id} answers 404 for
\* an unknown job, else 403 for another tenant's job, else 400 while the job
\* is Queued, Processing or Failed, else 404 when the output file is missing,
\* and 200 otherwise; so 200 is answered only for a completed job of the
\* requester whose output file was written and is on disk.
C14_DownloadCodes ==
    \A header \in Headers, id \in JobIds, present \in BOOLEAN :
        Authenticated(header) =>
            LET code == download_result(header, id, present).code
                onDisk == present /\ OutputFile(Tenant(header), id) \in files
            IN  /\ code =
                     IF id \notin DOMAIN jobs THEN 404
                     ELSE IF jobs[id].user_id # Tenant(header) THEN 403
                     ELSE IF jobs[id].status \in {QUEUED, PROCESSING, FAILED} THEN 400
                     ELSE IF ~onDisk THEN 404
                     ELSE 200
                /\ code = 200 =>
                     /\ id \in DOMAIN jobs
                     /\ jobs[id].user_id = Tenant(header)
                     /\ jobs[id].status = COMPLETED
                     /\ onDisk

\* C14 witness: a tenant has a completed job, served when its output file is
\* on disk and answered 404 when it is not, and a failed job answered 400.
C14_Witness ==
    \E header \in Headers, i, j \in DOMAIN jobs :
        /\ Authenticated(header)
        /\ download_result(header, i, TRUE).code = 200
        /\ download_result(header, i, FALSE).code = 404
        /\ jobs[j].status = FAILED
        /\ download_result(header, j, TRUE).code = 400

\* C15: the status answer for a job carries a download_url if and only if the
\* job's status is Completed.
C15_DownloadUrlIffCompleted ==
    \A header \in Headers, id \in DOMAIN jobs :
        LET answer == get_job_status(header, id) IN
        answer.code = 200 =>
            ((answer.body.download_url # None) <=> (jobs[id].status = COMPLETED))

\* C15 witness: the owner's status answers for a completed job, with the
\* link, and for a failed job, without it.
C15_Witness ==
    \E header \in Headers, i, j \in DOMAIN jobs :
        /\ get_job_status(header, i).code = 200
        /\ jobs[i].status = COMPLETED
        /\ get_job_status(header, i).body.download_url # None
        /\ get_job_status(header, j).code = 200
        /\ jobs[j].status = FAILED
        /\ get_job_status(header, j).body.download_url = None

\* C18: the history of a tenant lists that tenant's records newest first
\* (created_at descending), never more than limit of them and as many as the
\* tenant has up to limit; when the tenant has more, the listed ones are the
\* limit newest: no unlisted record of the tenant is newer than a listed one.
C18_ListNewestFirst ==
    \A header \in Headers, limit \in Limits :
        Authenticated(header) =>
            LET items == get_transform_history(header, limit).body.transforms
                own == JobsOf(Tenant(header))
                listed == {items[k].job_id : k \in DOMAIN items}
            IN  /\ Len(items) <= limit
                /\ Len(items) = IF Cardinality(own) < limit THEN Cardinality(own) ELSE limit
                /\ Cardinality(listed) = Len(items)
                /\ listed \subseteq own
                /\ \A a, b \in DOMAIN items :
                      a < b => items[a].created_at >= items[b].created_at
                /\ \A i \in own \ listed, k \in listed :
                      jobs[i].created_at <= jobs[k].created_at

\* C18 witness: a tenant has two jobs created at different instants; limit 1
\* lists the newer one only, limit 2 lists both, the newer one first.
C18_Witness ==
    \E header \in Headers, i, j \in DOMAIN jobs :
        /\ Authenticated(header)
        /\ jobs[i].created_at < jobs[j].created_at
        /\ HistoryIds(header, 1) = {j}
        /\ get_transform_history(header, 2).body.transforms[1].job_id = j
        /\ get_transform_history(header, 2).body.transforms[2].job_id = i

\* what one POST /transform does to the queue, the storage and the answer
PostTransform(header, rm_filename, size_ok, preset) ==
    \/ transform_file(header, rm_filename, size_ok, preset)
    \/ transform_file_rejected(header, rm_filename, size_ok, preset)

C16_UploadStep ==
    \A header \in Headers, rm_filename \in BOOLEAN, size_ok \in BOOLEAN, preset \in Presets :
        (Authenticated(header) /\ PostTransform(header, rm_filename, size_ok, preset)) =>
            LET code == IF ~rm_filename THEN 400
                        ELSE IF ~size_ok THEN 413
                        ELSE IF preset \notin {"minimal", "medium", "aggressive"} THEN 400
                        ELSE 200
                detail == IF ~rm_filename THEN "File must be a .rm file"
                          ELSE IF ~size_ok THEN "File size exceeds limit"
                          ELSE "Invalid preset"
                id == Len(jobs) + 1
            IN  /\ response'.code = code
                /\ code # 200 =>
                      /\ response'.body = [detail |-> detail]
                      /\ jobs' = jobs
                      /\ files' = files
                      /\ UNCHANGED <<tasks, processing_task>>
                /\ code = 200 =>
                      /\ Len(jobs') = id
                      /\ \A i \in DOMAIN jobs : jobs'[i] = jobs[i]
                      /\ jobs'[id].status = QUEUED
                      /\ jobs'[id].user_id = Tenant(header)
                      /\ jobs'[id].preset = preset
                      /\ files' = files \cup {InputFile(Tenant(header), id)}
                      /\ response'.body.job_id = id
                      /\ response'.body.status = QUEUED

\* C16: an upload is refused before any side effect: a filename that does not
\* end in .rm gives 400, else a body over the size limit gives 413, else a
\* preset outside {minimal, medium, aggressive} gives 400, and a refused upload
\* leaves the queue and the storage as they were; an accepted upload stores
\* exactly one job, Queued, and its input file, and answers Queued.
C16_UploadValidation == [][C16_UploadStep]_vars

\* C16 witness: after an accepted upload, an upload that is too large and
\* names an unknown preset was answered 413; the queue holds the one job and
\* the storage the one input file.
C16_Witness ==
    /\ response.code = 413
    /\ Len(jobs) = 1
    /\ files = {InputFile(jobs[1].user_id, 1)}
    /\ jobs[1].status = QUEUED

\* the requests that carry no key or a key that is not a configured one
NotAKey == {header \in Headers : header = NoHeader \/ header \notin api_keys}

\* every endpoint refuses the header with 401 and nothing but the detail, and
\* no upload with it is accepted, whatever else the request carries
Refused(header) ==
    /\ \A id \in JobIds :
          LET answer == get_job_status(header, id) IN
          answer.code = 401 /\ DOMAIN answer.body = {"detail"}
    /\ \A id \in JobIds, present \in BOOLEAN :
          LET answer == download_result(header, id, present) IN
          answer.code = 401 /\ DOMAIN answer.body = {"detail"}
    /\ \A limit \in Limits :
          LET answer == get_transform_history(header, limit) IN
          answer.code = 401 /\ DOMAIN answer.body = {"detail"}
    /\ \A rm_filename \in BOOLEAN, size_ok \in BOOLEAN, preset \in Presets :
          /\ Validate(verify_api_key(header), rm_filename, size_ok, preset) = 401
          /\ ~ENABLED transform_file(header, rm_filename, size_ok, preset)

Invokes(path) ==
    /\ watcher.pc # "process"
    /\ watcher'.pc = "process"
    /\ watcher'.path = path

\* C19: idle debounce.  The watcher's timer of a path is the now of the scan
\* that last saw the path's mtime differ from the mtime seen before (the
\* first sighting included), and the watcher calls process_file on a path only
\* in a scan whose now is at least idle_threshold after it; so, for
\* idle_threshold > 0, never in the scan that first sees the file or sees it
\* change.
C19_IdleDebounce ==
    /\ [](\A path \in Paths :
            /\ file_mtimes[path] = observed[path].mtime
            /\ file_last_change[path] = observed[path].at)
    /\ [][\A path \in Paths : Invokes(path) =>
            /\ observed[path].at # NoTime
            /\ watcher.now - observed[path].at >= idle_threshold
            /\ idle_threshold > 0 => path \notin changed_now]_vars

\* C19 witness: with the largest threshold, process_file is called on a file
\* whose timer was restarted by a change seen after the daemon's first scan.
C19_Witness ==
    \E path \in Paths :
        /\ watcher.pc = "process" /\ watcher.path = path
        /\ idle_threshold = MaxIdleThreshold
        /\ observed[path].at > 0
        /\ observed[path].mtime > 0
        /\ watcher.now - observed[path].at >= idle_threshold

\* C20: duplicate-work suppression.  Once process_file has finished without
\* error on a path, rewritten or not, should_process refuses the path and the
\* watcher does not call process_file on it again until xochitl writes the
\* file, although the processor's own rewrite changed the file's mtime and
\* restarted the watcher's timer.
C20_NoDuplicateWork ==
    /\ [](\A path \in Paths : finished[path] # "no" => ~should_process(path))
    /\ [][\A path \in Paths : Invokes(path) => finished[path] = "no"]_vars

\* C20 witness: process_file rewrote the file, a later scan saw the new mtime,
\* the file became idle again, and should_process refuses it.
C20_Witness ==
    \E path \in Paths :
        /\ finished[path] = "changed"
        /\ watcher.pc = "idle" /\ watcher.path = path
        /\ idle_threshold > 0
        /\ file_mtimes[path] = mtime[path]
        /\ observed[path].at > 0
        /\ mtime[path] = processed_mtimes[path]
        /\ ~should_process(path)


\* ------------------------------------------------------------- the rewrite of a page
\* C21: the atomic rewrite never leaves a half-written page.  At every step of
\* process_file the file at the original path holds the complete original
\* blocks, or, once the rename is done, the complete new blocks; and when a
\* step of the rewrite has failed and process_file has returned, the temp
\* file is gone, the original is intact, the call ended with the error, and
\* neither the sidecar nor the remembered mtime was written.
C21_AtomicRewrite ==
    proc.pc # "none" =>
        LET path == proc.path IN
            /\ disk[path].rm # proc.original.rm =>
                    /\ disk[path].rm = File(proc.blocks)
                    /\ proc.pc = "mark"
            /\ proc.pc = "except" => disk[path].rm = proc.original.rm
            /\ proc.error = "write" =>
                    /\ proc.pc = "returned"
                    /\ ~disk[path].tmp.exists
                    /\ disk[path].rm = proc.original.rm
                    /\ marker[path] = <<>>
                    /\ processed_mtimes[path] = NoTime
                    /\ finished[path] = "no"

\* C21 witness: the rename failed after the backup was copied, and
\* process_file has returned
C21_Witness ==
    /\ proc.pc = "returned"
    /\ proc.error = "write"
    /\ disk["page1.rm"].bak = proc.original.rm
    /\ proc.original.bak # proc.original.rm


\* C22: a call of process_file that finds nothing to change, or that cannot
\* read the page, leaves the disk alone: the page holds the blocks it held
\* when the call began, and the temp file and the backup are as they were
\* (none is created).
C22_UnchangedTouchesNothing ==
    proc.pc # "none" =>
        LET path == proc.path IN
            (finished[path] = "unchanged" \/ watcher.rewrite = "unchanged"
                \/ proc.error = "read")
                => disk[path] = proc.original

\* C22 witness: a page with a stroke and no backup was reported Unchanged
C22_Witness ==
    /\ finished["page1.rm"] = "unchanged"
    /\ proc.lines_skipped > 0
    /\ ~disk["page1.rm"].bak.exists
    /\ ~disk["page1.rm"].tmp.exists


C24_HandoffOncePerIdlePeriod ==
    /\ [](\A path \in Paths : handoffs[path] <= 1)
    /\ [][\A path \in Paths :
            (path \in idle_triggered /\ path \notin idle_triggered')
                => file_mtimes'[path] # file_mtimes[path]]_vars

\* C24 witness: the page was handed over in an earlier scan, its mtime has
\* not changed since, and a later scan finds it idle again.
C24_Witness ==
    \E path \in Paths :
        /\ cloud_enabled
        /\ handoffs[path] = 1
        /\ path \in idle_triggered
        /\ watcher.pc = "idle" /\ watcher.path = path
        /\ watcher.now > observed[path].at + idle_threshold


\* C25: the hand-off queue never holds two pending entries with the same
\* rm_path, and a call of enqueue for a path that has a pending entry leaves
\* the queue, and so the file _save writes, as it was.
C25_NoDuplicatePending ==
    /\ [](\A i, k \in DOMAIN cloud_queue :
            (/\ cloud_queue[i].rm_path = cloud_queue[k].rm_path
             /\ cloud_queue[i].status = "pending"
             /\ cloud_queue[k].status = "pending") => i = k)
    /\ [][\A path \in Paths :
            (/\ handoffs'[path] > handoffs[path]
             /\ \E i \in DOMAIN cloud_queue :
                    cloud_queue[i].rm_path = path /\ cloud_queue[i].status = "pending")
                => cloud_queue' = cloud_queue]_vars

\* C25 witness: the page was queued in an earlier idle period, the watcher
\* then saw its mtime change, and enqueue was called for it again.
C25_Witness ==
    \E path \in Paths :
        /\ handoffs[path] = 1
        /\ path \in idle_triggered
        /\ Len(cloud_queue) = 1
        /\ cloud_queue[1].rm_path = path
        /\ cloud_queue[1].queued_at < observed[path].at


TwoPointPage ==
    /\ proc.pc \notin {"none", "read"}
    /\ proc.error # "read"
    /\ \A i \in DOMAIN proc.original.rm.blocks :
          /\ proc.original.rm.blocks[i].kind = "line"
          /\ Len(proc.original.rm.blocks[i].points) = 2

\* C27 as stated: every kernel is the identity on a two-point stroke, so a
\* page whose strokes all have two points is reported Unchanged and keeps its
\* bytes, pressure normalization being enabled as in the presets.
C27_TwoPointUnchanged ==
    (TwoPointPage /\ config.pressure_normalization.enabled) =>
        /\ proc.lines_processed = 0
        /\ proc.blocks = proc.original.rm.blocks
        /\ disk[proc.path].rm = proc.original.rm

\* what pressure normalization makes of the pressure of point i of a
\* two-point stroke: the midpoint of the targets when the two pressures are
\* equal, else target_min for the lower and target_max for the higher
TwoPointPressure(pts, i) ==
    LET target == config.pressure_normalization
    IN  IF ~target.enabled THEN pts[i].pressure
        ELSE IF pts[1].pressure = pts[2].pressure
            THEN (target.target_min + target.target_max) \div 2
        ELSE IF pts[i].pressure < pts[3 - i].pressure THEN target.target_min
        ELSE target.target_max

\* C27 amended: on a two-point stroke smoothing and the straight-line snap are
\* the identity, and pressure normalization, when enabled, sets the two
\* pressures to target_min and target_max, or both to the midpoint when they
\* are equal.  So a page whose strokes all have two points is reported
\* Unchanged exactly when every stroke that is not skipped for its tool has
\* these pressures already, or pressure normalization is disabled.
C27_TwoPointPressureOnly ==
    TwoPointPage =>
        LET original == proc.original.rm.blocks
            eligible == {i \in DOMAIN original : should_process_line(original[i], config)}
        IN  /\ \A i \in DOMAIN original :
                  straightened(smoothed(original[i].points, config), config)
                      = original[i].points
            /\ \A i \in DOMAIN original : \A k \in 1..2 :
                  proc.blocks[i].points[k] =
                      IF i \in eligible
                          THEN [original[i].points[k] EXCEPT
                                    !.pressure = TwoPointPressure(original[i].points, k)]
                          ELSE original[i].points[k]
            /\ proc.lines_processed = 0
                  <=> \A i \in eligible : \A k \in 1..2 :
                          TwoPointPressure(original[i].points, k) = original[i].points[k].pressure
            /\ proc.lines_processed = 0 => disk[proc.path].rm = proc.original.rm

\* C27 witness: the page holds the two-point diagonal with both pressures
\* 128, and process_file has rewritten it with both pressures 127
C27_Witness ==
    /\ TwoPointPage
    /\ config.pressure_normalization.enabled
    /\ finished[proc.path] = "changed"
    /\ \E i \in DOMAIN proc.blocks :
          /\ proc.original.rm.blocks[i].points = Diagonal
          /\ disk[proc.path].rm.blocks[i].points
                = <<Pt(200, 200, 127), Pt(250, 250, 127)>>


\* ------------------------------------------------------------- pressure normalization
\* normalize_pressure has returned, and the stroke was not flat (p_hi > p_lo)
Normalized == stroke_out.kernel = "normalize_pressure"

NotDegenerate ==
    /\ Len(stroke_in) >= 2
    /\ p_hi(stroke_in, config.pressure_normalization.high_percentile)
          > p_lo(stroke_in, config.pressure_normalization.low_percentile)

Bypassed(block) ==
    /\ block.kind = "line"
    /\ \/ block.tool \in config.processing.skip_tools
       \/ /\ config.processing.only_tools # {}
          /\ block.tool \notin config.processing.only_tools

\* C29: a stroke whose tool is in the skip-set, or is not in a non-empty
\* include-set, bypasses the pipeline.  When process_file has run its loop
\* such a stroke has the points it had and is among the strokes counted as
\* skipped, on the device and, for the tools 6 and 8, in the cloud.
C29_SkippedToolsBypass ==
    /\ (proc.pc \notin {"none", "read"} /\ proc.error # "read") =>
            LET original == proc.original.rm.blocks
                lines == {i \in DOMAIN original : original[i].kind = "line"}
                bypassed == {i \in DOMAIN original : Bypassed(original[i])}
            IN  /\ \A i \in bypassed : proc.blocks[i] = original[i]
                /\ proc.lines_processed + proc.lines_skipped = Cardinality(lines)
                /\ proc.lines_processed <= Cardinality(lines \ bypassed)
                /\ proc.lines_skipped >= Cardinality(bypassed)
    /\ stroke_out.kernel = "cloud process_file" =>
            LET original == proc.original.rm.blocks
                lines == {i \in DOMAIN original : original[i].kind = "line"}
                bypassed == {i \in lines : original[i].tool \in {6, 8}}
            IN  /\ \A i \in bypassed : stroke_out.strokes.blocks[i] = original[i]
                /\ stroke_out.strokes.strokes_processed + stroke_out.strokes.strokes_skipped
                      = Cardinality(lines)
                /\ stroke_out.strokes.strokes_processed <= Cardinality(lines \ bypassed)
                /\ stroke_out.strokes.strokes_skipped >= Cardinality(bypassed)

\* C29 witness: a page of two strokes that the pipeline would change, one of
\* tool 6 and one of tool 4 with only tool 2 included, was read and reported
\* Unchanged with both counted as skipped, and the cloud skipped the first
C29_Witness ==
    /\ finished[proc.path] = "unchanged"
    /\ proc.original.rm.blocks = <<Line(6, Wavy), Line(4, Short)>>
    /\ process_stroke(Wavy, config) # Wavy
    /\ process_stroke(Short, config) # Short
    /\ config.processing.only_tools = {2}
    /\ proc.lines_skipped = 2
    /\ stroke_out.kernel = "cloud process_file"
    /\ stroke_out.strokes.strokes_skipped = 1


\* ------------------------------------------------------------- the order of the kernels
\* C30: process_stroke applies the smoothing kernel, then the straight-line
\* snap, then pressure normalization, each only when its section of the
\* configuration enables it, and the smoothing kernel only on a stroke of at
\* least min_points points; the snap is given what smoothing returned and
\* normalization what the snap returned.
C30_KernelOrder ==
    stroke_out.kernel = "process_stroke" =>
        LET after_smoothing ==
                IF config.smoothing.enabled /\ Len(stroke_in) >= config.smoothing.min_points
                    THEN IF config.smoothing.algorithm = "gaussian"
                            THEN smooth_gaussian(stroke_in, config.smoothing.window_size)
                         ELSE IF config.smoothing.algorithm = "moving_average"
                            THEN smooth_moving_average(stroke_in, config.smoothing.window_size)
                         ELSE simplify_rdp(stroke_in, config.smoothing.rdp_epsilon)
                    ELSE stroke_in
            after_snap ==
                IF config.line_straightening.enabled
                    THEN straighten_line(after_smoothing,
                                         config.line_straightening.straightness_threshold,
                                         config.line_straightening.min_length,
                                         config.line_straightening.max_points)
                    ELSE after_smoothing
            after_pressure ==
                IF config.pressure_normalization.enabled
                    THEN normalize_pressure(after_snap,
                                            config.pressure_normalization.target_min,
                                            config.pressure_normalization.target_max,
                                            config.pressure_normalization.low_percentile,
                                            config.pressure_normalization.high_percentile)
                    ELSE after_snap
        IN  stroke_out.points = after_pressure

\* C30 witness: with every kernel enabled, a stroke of five points that
\* smoothing shortens below the snap's min_length, so that the snap, which
\* would have straightened the stroke as it was drawn, leaves it alone
C30_Witness ==
    /\ stroke_out.kernel = "process_stroke"
    /\ stroke_in = Wavy
    /\ config = DefaultConfig
    /\ straighten_line(Wavy, 15, 50, 30) # Wavy
    /\ smooth_gaussian(Wavy, 5) # Wavy
    /\ straighten_line(smooth_gaussian(Wavy, 5), 15, 50, 30) = smooth_gaussian(Wavy, 5)
    /\ \A i \in 1..5 : /\ stroke_out.points[i].x = smooth_gaussian(Wavy, 5)[i].x
                       /\ stroke_out.points[i].y = smooth_gaussian(Wavy, 5)[i].y

\* ------------------------------------------------------------- the kernels' contracts
\* C31: each smoothing kernel (Gaussian, moving average, RDP), for every
\* window size and every epsilon >= 0, returns a stroke whose first and last
\* points are the first and last points it was given.
C31_EndpointsKept ==
    stroke_out.kernel \in {"smooth_gaussian", "smooth_moving_average", "simplify_rdp"} =>
        /\ stroke_out.points # <<>>
        /\ stroke_out.points[1] = stroke_in[1]
        /\ stroke_out.points[Len(stroke_out.points)] = stroke_in[Len(stroke_in)]

\* C31 witness: a stroke whose ends are off the level of its inner points,
\* the Gaussian kernel with a window of five having moved an inner point
C31_Witness ==
    /\ stroke_out.kernel = "smooth_gaussian"
    /\ stroke_out.window_size = 5
    /\ Len(stroke_in) = 5
    /\ stroke_in[1].y = 20
    /\ stroke_in[2].y = 0
    /\ stroke_in[5].y = 8
    /\ stroke_out.points[3] # stroke_in[3]

\* C32: RDP simplification is idempotent: simplify_rdp applied with the same
\* epsilon >= 0 to what it returned returns it again, also for a stroke where
\* several inner points are equally far from the chord.
C32_RdpIdempotent ==
    stroke_out.kernel = "simplify_rdp twice" => stroke_out.points = stroke_out.once

\* C32 witness: two inner points tie for the greatest distance, the first
\* call dropped a point and kept an inner one, and the second call has run
C32_Witness ==
    /\ stroke_out.kernel = "simplify_rdp twice"
    /\ Len(stroke_in) = 5
    /\ \E i, j \in 2..4 :
          /\ i < j
          /\ perpendicular_distance(stroke_in[i], stroke_in[1], stroke_in[5]) = rdp_max_dist(stroke_in)
          /\ perpendicular_distance(stroke_in[j], stroke_in[1], stroke_in[5]) = rdp_max_dist(stroke_in)
    /\ rdp_max_dist(stroke_in) > stroke_out.epsilon * Unit
    /\ Len(stroke_out.once) \in {3, 4}

\* C33: straighten_line returns its input unchanged when the stroke has fewer
\* than 2 points or more than max_points, is shorter than min_length, deviates
\* from its chord by more than threshold, or has length 0; otherwise it
\* returns as many points as it was given, the first and the last equal to the
\* input's, every point on the segment between them (to the model's
\* resolution of one unit per coordinate), and point i with the speed,
\* direction, width and pressure of input point i.
C33_SnapContract ==
    stroke_out.kernel = "straighten_line" =>
        LET S == stroke_in
            R == stroke_out.points
            n == Len(S)
        IN  IF \/ n < 2
               \/ n > stroke_out.max_points
               \/ stroke_length(S) < stroke_out.min_length * Unit
               \/ max_deviation(S) > stroke_out.threshold * Unit
               \/ stroke_length(S) = 0
                THEN R = S
                ELSE /\ Len(R) = n
                     /\ R[1] = S[1]
                     /\ R[n] = S[n]
                     /\ \A i \in 1..n :
                          /\ perpendicular_distance(R[i], S[1], S[n]) <= 72
                          /\ R[i].speed = S[i].speed
                          /\ R[i].direction = S[i].direction
                          /\ R[i].width = S[i].width
                          /\ R[i].pressure = S[i].pressure

\* C33 witness: a stroke of five points, long enough and within the
\* threshold of its chord, has been snapped: an inner point has moved
C33_Witness ==
    /\ stroke_out.kernel = "straighten_line"
    /\ Len(stroke_in) = 5
    /\ stroke_out.min_length = 50
    /\ stroke_out.threshold = 15
    /\ stroke_out.max_points = 30
    /\ max_deviation(stroke_in) > 0
    /\ stroke_in[1].y # stroke_in[5].y
    /\ stroke_out.points # stroke_in

\* ------------------------------------------------------------- the flag and the queue
\* a pending entry for the path is among the entries
HasPending(entries, path) ==
    \E k \in DOMAIN entries : entries[k].rm_path = path /\ entries[k].status = "pending"

\* C34 as stated: whenever the idle-dispatched flag of a path is set, the
\* persisted queue (the queue file) holds a pending entry for the path.
C34_FlagImpliesPersistedEntry ==
    \A path \in idle_triggered : HasPending(queue_file.entries, path)

\* C34 as the code has it: whenever the idle-dispatched flag of a path is
\* set, the queue in the watcher's memory holds a pending entry for the path.
C34_FlagImpliesQueuedEntry ==
    \A path \in idle_triggered : HasPending(cloud_queue, path)

\* C34 witness: the flag of a page is set, its entry is in the watcher's
\* queue, and the queue file, which could not be written, is without it
C34_Witness ==
    /\ "page1.rm" \in idle_triggered
    /\ HasPending(cloud_queue, "page1.rm")
    /\ ~HasPending(queue_file.entries, "page1.rm")
    /\ ~queue_file.writable

\* ------------------------------------------------------------- the life of a job
\* C35: a job's status moves only along Queued -> Processing -> Completed or
\* Failed: the worker takes up only a Queued job, a Queued job becomes
\* nothing but Processing, a Processing job nothing but Completed or Failed,
\* and the record of a Completed or Failed job is never changed again.
C35_StatusStep ==
    /\ \A i \in DOMAIN jobs :
          /\ i \in DOMAIN jobs'
          /\ jobs[i].status = QUEUED => jobs'[i].status \in {QUEUED, PROCESSING}
          /\ jobs[i].status = PROCESSING => jobs'[i].status \in {PROCESSING, COMPLETED, FAILED}
          /\ jobs[i].status \in {COMPLETED, FAILED} => jobs'[i] = jobs[i]
    /\ \A t \in DOMAIN tasks :
          (t \in DOMAIN tasks' /\ tasks[t].pc = "top" /\ tasks'[t].pc = "exec")
              => jobs[tasks'[t].job].status = QUEUED

C35_StatusLifecycle == [][C35_StatusStep]_vars

\* C35 witness: a job has failed and the worker, having gone on, has taken
\* up the job queued after it
C35_Witness ==
    \E i, k \in DOMAIN jobs :
        /\ i < k
        /\ jobs[i].status = FAILED
        /\ jobs[k].status = PROCESSING

\* ------------------------------------------------------------- process_file's failures
\* the errors of a missing and of an unreadable input file
ReadErrors == {"Input file not found", "Failed to read .rm file"}

\* C36: the cloud process_file never raises and returns Completed or Failed;
\* when the input file is missing or cannot be parsed the job ends Failed
\* with the error's text, no output file is written for the job, and the
\* input file stays as it was uploaded.
C36_ReadFailure ==
    /\ \A t \in DOMAIN tasks :
          tasks[t].pc = "ready" =>
              /\ tasks[t].result.kind = "result"
              /\ tasks[t].result.status \in {COMPLETED, FAILED}
              /\ tasks[t].result.status = FAILED => tasks[t].result.error # None
              /\ tasks[t].result.error \in ReadErrors =>
                    /\ tasks[t].result.status = FAILED
                    /\ tasks[t].result.output_path = None
                    /\ OutputFile(jobs[tasks[t].job].user_id, tasks[t].job) \notin files
    /\ \A i \in DOMAIN jobs :
          /\ InputFile(jobs[i].user_id, jobs[i].job_id) \in files
          /\ jobs[i].error_message \in ReadErrors =>
                /\ jobs[i].status = FAILED
                /\ jobs[i].output_path = None
                /\ jobs[i].stats = None
                /\ OutputFile(jobs[i].user_id, jobs[i].job_id) \notin files

\* C36 witness: one job has ended Failed on a missing input file and another
\* on one that could not be parsed
C36_Witness ==
    \E i, k \in DOMAIN jobs :
        /\ jobs[i].status = FAILED
        /\ jobs[i].error_message = "Input file not found"
        /\ jobs[k].status = FAILED
        /\ jobs[k].error_message = "Failed to read .rm file"

\* ------------------------------------------------------------- the stats of a cloud run
\* C37: in the stats the cloud's process_file counts for a completed job,
\* strokes_straightened is 0, strokes_smoothed equals strokes_processed
\* whichever kernel changed the strokes, and strokes_processed plus
\* strokes_skipped is the number of line-item blocks that carry a stroke.
C37_Stats ==
    stroke_out.kernel = "cloud process_file" =>
        LET stats == stroke_out.strokes
            original == proc.original.rm.blocks
        IN  /\ stats.strokes_straightened = 0
            /\ stats.strokes_smoothed = stats.strokes_processed
            /\ stats.strokes_processed + stats.strokes_skipped
                  = Cardinality({i \in DOMAIN original : original[i].kind = "line"})
            /\ stats.strokes_processed
                  = Cardinality({i \in DOMAIN original : stats.blocks[i] # original[i]})

\* C37 witness: under the medium preset a page of another block and a
\* two-point stroke, which smoothing leaves alone and of which only the
\* pressures change: the stroke is counted as processed and as smoothed
C37_Witness ==
    /\ stroke_out.kernel = "cloud process_file"
    /\ stroke_out.preset = "medium"
    /\ proc.original.rm.blocks = <<OtherBlock, Line(2, Short)>>
    /\ smooth_gaussian(Short, 5) = Short
    /\ stroke_out.strokes.strokes_processed = 1
    /\ stroke_out.strokes.strokes_smoothed = 1
    /\ stroke_out.strokes.strokes_skipped = 0

\* ------------------------------------------------------------- an mtime that moves backwards
\* C38: should_process returns false whenever the file's mtime is less than
\* or equal to the mtime remembered in memory as processed: a page whose
\* mtime has moved backwards since it was processed is not processed again
\* while the daemon lives, though its mtime differs from the processed one.
C38_Step ==
    (/\ watcher.pc = "idle"
     /\ watcher' # watcher
     /\ processed_mtimes[watcher.path] # NoTime
     /\ mtime[watcher.path] <= processed_mtimes[watcher.path])
        => /\ ~should_process(watcher.path)
           /\ watcher'.pc # "process"

C38_OlderMtimeNotReprocessed == [][C38_Step]_vars

\* C38 witness: the page was processed, an older copy was put back, and a
\* scan has seen the older mtime, which is in no sidecar, and has gone on
\* without processing the page
C38_Witness ==
    /\ watcher.pc = "sleep"
    /\ processed_mtimes["page1.rm"] # NoTime
    /\ mtime["page1.rm"] < processed_mtimes["page1.rm"]
    /\ ~MarkerMatches("page1.rm")
    /\ file_mtimes["page1.rm"] = mtime["page1.rm"]
    /\ finished["page1.rm"] = "no"

\* ------------------------------------------------------------- the watcher gets to every due page
\* process_file is being called on the path
Invoked(path) == watcher.pc = "process" /\ watcher.path = path

\* process_file is running on the page: called, or past the rewrite and about
\* to remember the mtime (lines 134-137)
InProcessFile(path) == watcher.pc \in {"process", "mark"} /\ watcher.path = path

\* the clock of the model has run out before the page was idle for
\* idle_threshold: the last scan that saw the page change was too late
TooLate(path) ==
    /\ clock = MaxClock
    /\ file_mtimes[path] = mtime[path]
    /\ file_last_change[path] # NoTime
    /\ MaxClock - file_last_change[path] < idle_threshold

====
